---- MODULE Spec2Model ----
(***************************************************************************)
(* Typedown compiler core: source overlay, symbol table, validator        *)
(* (global stage), compiler facade and the progressive `check` command.   *)
(***************************************************************************)
EXTENDS Integers, Sequences, FiniteSets, TLC

(***************************************************************************)
(* Bounds                                                                  *)
(***************************************************************************)
\* number of entity blocks in a project handed to the validator
MaxEnt == 2
\* number of blocks registered by the linker in the symbol-table runs
MaxReg == 3
\* number of overlay operations in a source-provider run
MaxOps == 3
\* number of compiler operations in a facade run
MaxCalls == 3

(***************************************************************************)
(* Python values that occur in entity payloads and diagnostics            *)
(***************************************************************************)
None == "None"

\* every payload value is a record [k, q, items]:
\*   k = "lit"     the plain string q[1] (no reference in it)
\*   k = "ref"     the string "[[q]]", q being the query split at "."
\*   k = "mixed"   a string "text [[q]] text"
\*   k = "list"    a YAML list of the scalar values in items
\*   k = "block"   the EntityBlock object with id q[1] (a resolved value)
\*   k = "spliced" a string "text <str(value of q)> text" (a resolved value)
\*   k = "absent"  key not present in the mapping
\* b is the block index of a "block" value and 0 otherwise
Lit(s) == [k |-> "lit", q |-> <<s>>, items |-> <<>>, b |-> 0]
Ref(q) == [k |-> "ref", q |-> q, items |-> <<>>, b |-> 0]
Mixed(q) == [k |-> "mixed", q |-> q, items |-> <<>>, b |-> 0]
ListV(xs) == [k |-> "list", q |-> <<>>, items |-> xs, b |-> 0]
Block(i, id) == [k |-> "block", q |-> <<id>>, items |-> <<>>, b |-> i]
Spliced(q) == [k |-> "spliced", q |-> q, items |-> <<>>, b |-> 0]
Absent == [k |-> "absent", q |-> <<>>, items |-> <<>>, b |-> 0]

\* entity ids in ascending string order
IdOrder == <<"A", "B", "C", "D", "E">>
Rank(id) == CHOOSE i \in 1..Len(IdOrder) : IdOrder[i] = id
MinId(S) == CHOOSE x \in S : \A y \in S : Rank(x) <= Rank(y)

\* directories (scopes) as paths from the project root
Root == <<>>
Parent(d) == SubSeq(d, 1, Len(d) - 1)

Range(s) == {s[i] : i \in 1..Len(s)}

(***************************************************************************)
(* Diagnostics                                                             *)
(***************************************************************************)
\* TypedownError: code, level, location (index of the block in document-walk
\* order, 0 = no location) and details (a str or a list of strings)
Str(s) == [t |-> "str", s |-> s]
Diag(code, level, at, details) ==
    [code |-> code, level |-> level, at |-> at, details |-> details]

has_errors(ds) == \E i \in 1..Len(ds) : ds[i].level = "error"

by_code(ds, code) == SelectSeq(ds, LAMBDA d : d.code = code)

\* CycleError(message): code E0342, details = {"cycle": message}
CycleError(message, at) == Diag("E0342", "error", at, message)

(***************************************************************************)
(* Symbol table: scoped index (scope, name) -> block                       *)
(***************************************************************************)
EmptyTable == <<>>

\* the table is the sequence of accepted registrations [scope, name, blk]
Holds(tab, scope, name) ==
    \E i \in 1..Len(tab) : tab[i].scope = scope /\ tab[i].name = name

At(tab, scope, name) ==
    tab[CHOOSE i \in 1..Len(tab) : tab[i].scope = scope /\ tab[i].name = name].blk

registerBad(tab, blk, name, scope) ==
    IF Holds(tab, scope, name)
    THEN [tab |-> tab, err |-> <<Diag("E0241", "error", At(tab, scope, name), Str(<<name>>))>>]
    ELSE [tab |-> Append(tab, [scope |-> scope, name |-> name, blk |-> blk]), err |-> <<>>]

\* register(block, scope_path): E0241 at the offered block when (scope, id)
\* is already taken; the first registration stays
register(tab, blk, name, scope) ==
    IF Holds(tab, scope, name)
    THEN [tab |-> tab, err |-> <<Diag("E0241", "error", blk, Str(<<name>>))>>]
    ELSE [tab |-> Append(tab, [scope |-> scope, name |-> name, blk |-> blk]), err |-> <<>>]

resolve_idNoWalk(tab, name, dir) ==
    IF Holds(tab, dir, name) THEN At(tab, dir, name) ELSE 0

\* resolve_id(name, context_path): look in the directory of the context
\* file, then one directory up at a time, stopping at the project root;
\* 0 stands for "no block"
RECURSIVE resolve_id(_, _, _)
resolve_id(tab, name, dir) ==
    IF Holds(tab, dir, name) THEN At(tab, dir, name)
    ELSE IF dir = Root THEN 0
    ELSE resolve_id(tab, name, Parent(dir))

\* `name in symbol_table` / symbol_table.get(name): lookup by bare id
Contains(tab, name) == \E i \in 1..Len(tab) : tab[i].name = name

(***************************************************************************)
(* Project content: entity blocks in document-walk order                   *)
(***************************************************************************)
\* an entity block is [id, dir, cls, idInBody, viol, former, p]: signature id,
\* directory of its file, declared class, whether the body has a top-level
\* `id` key, whether a declared validator rejects the body, the `former`
\* value of the body (Absent when the key is missing) and the payload field p
raw_data(e) == [former |-> e.former, p |-> e.p]

\* schemas of the model registry: the annotation of payload field p
\* (kind "str", or "ref" = Ref[targets], or "listref" = List[Ref[targets]])
model_registry_of ==
    [User  |-> [kind |-> "str", targets |-> <<>>],
     Order |-> [kind |-> "ref", targets |-> <<"Cart", "Order">>],
     Cart  |-> [kind |-> "listref", targets |-> <<"User">>]]

\* Linker step 4: register every entity block, in document-walk order
RECURSIVE LinkFrom(_, _, _)
LinkFrom(ents, i, acc) ==
    IF i > Len(ents) THEN acc
    ELSE LET r == register(acc.tab, i, ents[i].id, ents[i].dir)
         IN LinkFrom(ents, i + 1, [tab |-> r.tab, diags |-> acc.diags \o r.err])

link(ents) == LinkFrom(ents, 1, [tab |-> EmptyTable, diags |-> <<>>])

(***************************************************************************)
(* Query engine                                                            *)
(***************************************************************************)
\* the outcome of a lookup: a value, an exception with its error code
\* (ReferenceError E0341, QueryError E0365), or an empty result list
Raise(code) == [ok |-> FALSE, val |-> Absent, err |-> code]
NoResults == [ok |-> FALSE, val |-> Absent, err |-> None]
Ok(v) == [ok |-> TRUE, val |-> v, err |-> None]

\* PART_PATTERN: a segment is `name` or `name[index]`
NameOf(seg) == IF seg \in {"p[0]", "p[9]"} THEN "p" ELSE seg
IndexOf(seg) == IF seg = "p[0]" THEN 0 ELSE IF seg = "p[9]" THEN 9 ELSE -1

\* the index part of a segment applied to the value found for its name
index_into(v, seg) ==
    IF IndexOf(seg) = -1 THEN Ok(v)
    ELSE IF v.k = "list" /\ IndexOf(seg) < Len(v.items)
    THEN Ok(v.items[IndexOf(seg) + 1])
    ELSE Raise("E0365")

Field(rec, name) ==
    IF name = "former" THEN rec.former ELSE IF name = "p" THEN rec.p ELSE Absent

\* _traverse_property_path: at the first segment the node's resolved_data is
\* consulted, then its raw_data; a segment found nowhere is a QueryError
RECURSIVE traverse_property_path(_, _, _, _, _)
traverse_property_path(ents, resolved, cur, path, i) ==
    IF i > Len(path) THEN Ok(cur)
    ELSE IF i = 1 /\ cur.k = "block"
         THEN LET rd == resolved[cur.b]
                  rw == raw_data(ents[cur.b])
                  next(r) == IF r.ok
                             THEN traverse_property_path(ents, resolved, r.val, path, i + 1)
                             ELSE r
              IN IF rd.set /\ Field(rd, NameOf(path[i])).k # "absent"
                 THEN next(index_into(Field(rd, NameOf(path[i])), path[i]))
                 ELSE IF Field(rw, NameOf(path[i])).k # "absent"
                 THEN next(index_into(Field(rw, NameOf(path[i])), path[i]))
                 ELSE Raise("E0365")
         ELSE Raise("E0365")

\* _resolve_symbol_path: split at ".", resolve the root by handle from the
\* context directory, then walk the property path
resolve_symbol_path(tab, ents, resolved, q, dir) ==
    LET blk == resolve_id(tab, q[1], dir)
    IN IF blk = 0 THEN Raise("E0341")
       ELSE traverse_property_path(ents, resolved, Block(blk, ents[blk].id), Tail(q), 1)

\* resolve_query: ReferenceError and QueryError are swallowed, the result
\* list is empty then
resolve_query(tab, ents, resolved, q, dir) ==
    LET results(r) == IF r.ok THEN r ELSE NoResults
    IN results(resolve_symbol_path(tab, ents, resolved, q, dir))

\* resolve_string: a string that is exactly [[q]] becomes the value of q or
\* raises ReferenceError; inside a longer string each [[q]] is spliced, and
\* left as it is when it does not resolve
resolve_string(tab, ents, resolved, v, dir) ==
    IF v.k = "ref"
    THEN LET first(r) == IF r.ok THEN r ELSE Raise("E0341")
         IN first(resolve_query(tab, ents, resolved, v.q, dir))
    ELSE IF v.k = "mixed"
    THEN Ok(IF resolve_query(tab, ents, resolved, v.q, dir).ok THEN Spliced(v.q) ELSE v)
    ELSE Ok(v)

RECURSIVE evaluate_items(_, _, _, _, _, _, _)
evaluate_items(tab, ents, resolved, xs, dir, i, acc) ==
    IF i > Len(xs) THEN Ok(ListV(acc))
    ELSE LET r == resolve_string(tab, ents, resolved, xs[i], dir)
         IN IF r.ok
            THEN evaluate_items(tab, ents, resolved, xs, dir, i + 1, Append(acc, r.val))
            ELSE r

\* evaluate_data on one value: lists are walked, strings go to resolve_string
evaluate_value(tab, ents, resolved, v, dir) ==
    IF v.k = "list" THEN evaluate_items(tab, ents, resolved, v.items, dir, 1, <<>>)
    ELSE IF v.k = "absent" THEN Ok(v)
    ELSE resolve_string(tab, ents, resolved, v, dir)

\* evaluate_data on the mapping of an entity; ok = FALSE stands for the
\* ReferenceError raised by the first exact reference that does not resolve
evaluate_data(tab, ents, resolved, data, dir) ==
    LET both(f, p) == [ok |-> f.ok /\ p.ok, former |-> f.val, p |-> p.val]
    IN both(evaluate_value(tab, ents, resolved, data.former, dir),
            evaluate_value(tab, ents, resolved, data.p, dir))

(***************************************************************************)
(* Dependency graph                                                        *)
(***************************************************************************)
\* adj : node id -> set of the ids it depends on
add_dependency(adj, a, b) ==
    LET A1 == IF a \in DOMAIN adj THEN adj ELSE adj @@ (a :> {})
    IN [A1 EXCEPT ![a] = @ \cup {b}]

\* ids reachable from n along one or more edges
RECURSIVE ReachFrom(_, _, _)
ReachFrom(adj, frontier, seen) ==
    LET next == UNION {IF x \in DOMAIN adj THEN adj[x] ELSE {} : x \in frontier} \ seen
    IN IF next = {} THEN seen ELSE ReachFrom(adj, next, seen \cup next)

OnCycle(adj, n) == n \in ReachFrom(adj, {n}, {})

HasCycle(adj) == \E n \in DOMAIN adj : OnCycle(adj, n)

\* the cycle through n as a closed path n -> ... -> n
RECURSIVE CyclePath(_, _, _)
CyclePath(adj, n, acc) ==
    LET cur == acc[Len(acc)]
        nxt == MinId({m \in adj[cur] : n \in ReachFrom(adj, {m}, {m})})
    IN IF nxt = n THEN Append(acc, n) ELSE CyclePath(adj, n, Append(acc, nxt))

\* Kahn's algorithm, dependencies first, ties by ascending id
RECURSIVE Kahn(_, _, _)
Kahn(adj, done, order) ==
    LET ready == {n \in DOMAIN adj \ done : (adj[n] \cap DOMAIN adj) \subseteq done}
    IN IF ready = {} THEN order
       ELSE Kahn(adj, done \cup {MinId(ready)}, Append(order, MinId(ready)))

\* the text "Circular dependency detected: a -> b -> a" of the exception
CycleMessage(path) == Str(<<"Circular dependency detected: ">> \o path)

\* the nodes in the order they were added, whatever their edges
topological_sortInsertionOrder(adj) ==
    IF HasCycle(adj)
    THEN [cycle |-> TRUE, order |-> <<>>,
          message |-> LET n == MinId({x \in DOMAIN adj : OnCycle(adj, x)})
                      IN CycleMessage(CyclePath(adj, n, <<n>>))]
    ELSE [cycle |-> FALSE, order |-> Kahn([n \in DOMAIN adj |-> {}], {}, <<>>), message |-> Str(<<>>)]

\* topological_sort: the order, or the CycleError message when there is a cycle
topological_sort(adj) ==
    IF HasCycle(adj)
    THEN [cycle |-> TRUE, order |-> <<>>,
          message |-> LET n == MinId({x \in DOMAIN adj : OnCycle(adj, x)})
                      IN CycleMessage(CyclePath(adj, n, <<n>>))]
    ELSE [cycle |-> FALSE, order |-> Kahn(adj, {}, <<>>), message |-> Str(<<>>)]

(***************************************************************************)
(* Validator                                                               *)
(***************************************************************************)
\* the ids named by the `former` value of an entity (EntityBlock.former_ids)
former_ids(e) ==
    IF e.former.k \in {"ref", "lit"} THEN <<e.former.q[1]>>
    ELSE IF e.former.k = "list"
    THEN [i \in 1..Len(e.former.items) |-> e.former.items[i].q[1]]
    ELSE <<>>

\* ids that occur as exact or embedded references in the payload field p
RefsOf(v) ==
    IF v.k \in {"ref", "mixed"} THEN {v.q[1]}
    ELSE IF v.k = "list"
    THEN {v.items[i].q[1] : i \in {j \in 1..Len(v.items) : v.items[j].k \in {"ref", "mixed"}}}
    ELSE {}

RECURSIVE AddAll(_, _, _, _)
AddAll(adj, tab, a, targets) ==
    IF targets = {} THEN adj
    ELSE LET t == CHOOSE x \in targets : TRUE
         IN AddAll(IF Contains(tab, t) THEN add_dependency(adj, a, t) ELSE adj,
                   tab, a, targets \ {t})

EdgesOfWithPayload(adj, tab, e) ==
    AddAll(adj, tab, e.id, Range(former_ids(e)) \cup RefsOf(e.p))

\* validate, graph build for one entity: an edge to every former target that
\* is in the symbol table, and none for the references of the payload
EdgesOf(adj, tab, e) ==
    AddAll(adj, tab, e.id, Range(former_ids(e)))

RECURSIVE build_graph(_, _, _, _)
build_graph(ents, tab, i, adj) ==
    IF i > Len(ents) THEN adj
    ELSE LET a1 == EdgesOf(adj, tab, ents[i])
             a2 == IF ents[i].id \in DOMAIN a1 THEN a1 ELSE a1 @@ (ents[i].id :> {})
         IN build_graph(ents, tab, i + 1, a2)

\* entities_by_id: the last block of the walk wins
entities_by_id(ents, id) ==
    LET S == {i \in 1..Len(ents) : ents[i].id = id}
    IN IF S = {} THEN 0 ELSE CHOOSE i \in S : \A j \in S : j <= i

Unset == [set |-> FALSE, former |-> Absent, p |-> Absent]

\* _check_field_annotation on a scalar: a Ref[T] annotation is checked only
\* when the resolved value is a str that names a registered entity, against
\* the primary target type
check_ref(ents, tab, ann, v, at) ==
    IF v.k = "lit" /\ Contains(tab, v.q[1])
       /\ ents[entities_by_id(ents, v.q[1])].cls # ann.targets[1]
    THEN <<Diag("E0362", "error", at, Str(<<v.q[1]>>))>>
    ELSE <<>>

RECURSIVE check_items(_, _, _, _, _, _)
check_items(ents, tab, ann, xs, at, i) ==
    IF i > Len(xs) THEN <<>>
    ELSE check_ref(ents, tab, ann, xs[i], at) \o check_items(ents, tab, ann, xs, at, i + 1)

\* _check_field_annotation: Ref[T] on the value, or on each item for List[Ref[T]]
check_field_annotation(ents, tab, ann, v, at) ==
    IF ann.kind = "ref" THEN check_ref(ents, tab, ann, v, at)
    ELSE IF ann.kind = "listref" /\ v.k = "list"
    THEN check_items(ents, tab, ann, v.items, at, 1)
    ELSE <<>>

check_semantic_types(ents, tab, i, rd) ==
    IF rd.p.k = "absent" THEN <<>>
    ELSE check_field_annotation(ents, tab, model_registry_of[ents[i].cls], rd.p, i)

\* the `former` check of _resolve_entity by the bare id, whatever the scope
former_checkUnscoped(tab, e, i) ==
    IF e.former.k \in {"ref", "lit"} /\ ~Contains(tab, e.former.q[1])
    THEN <<Diag("E0343", "error", i, Str(<<e.former.q[1]>>))>>
    ELSE <<>>

\* the `former` check of _resolve_entity: E0343 when the target, looked up
\* from the entity's file, is not an EntityBlock
former_check(tab, e, i) ==
    IF e.former.k \in {"ref", "lit"} /\ resolve_id(tab, e.former.q[1], e.dir) = 0
    THEN <<Diag("E0343", "error", i, Str(<<e.former.q[1]>>))>>
    ELSE <<>>

\* _resolve_entity: [raised, diags, rd]; raised stands for the TypeError of
\* REF_PATTERN.match on a `former` value that is not a string
resolve_entity(ents, tab, resolved, i) ==
    LET e == ents[i]
        fdiag == former_check(tab, e, i)
        rdRaw == [set |-> TRUE, former |-> e.former, p |-> e.p]
        after(ev) ==
            IF ev.ok
            THEN [raised |-> FALSE,
                  diags |-> fdiag \o check_semantic_types(ents, tab, i,
                                [set |-> TRUE, former |-> ev.former, p |-> ev.p]),
                  rd |-> [set |-> TRUE, former |-> ev.former, p |-> ev.p]]
            ELSE [raised |-> FALSE,
                  diags |-> fdiag \o <<Diag("E0341", "error", i, Str(<<"Reference not found">>))>>,
                  rd |-> rdRaw]
    IN IF e.former.k = "list"
       THEN [raised |-> TRUE, diags |-> <<>>, rd |-> Unset]
       ELSE after(evaluate_data(tab, ents, resolved, raw_data(e), e.dir))

RECURSIVE resolve_in_order(_, _, _, _, _)
resolve_in_order(ents, tab, order, k, acc) ==
    IF k > Len(order) \/ acc.raised THEN acc
    ELSE LET i == entities_by_id(ents, order[k])
             with(r) == IF r.raised THEN [acc EXCEPT !.raised = TRUE]
                        ELSE [acc EXCEPT !.diags = @ \o r.diags,
                                         !.resolved[i] = r.rd,
                                         !.reached = @ \cup {i},
                                         !.order = Append(@, i)]
         IN resolve_in_order(ents, tab, order, k + 1,
                             with(resolve_entity(ents, tab, acc.resolved, i)))

\* Validator.validate: [raised, diags, resolved, reached, order, graph];
\* order lists the entities in the order _resolve_entity returned for them
validate(ents, tab) ==
    LET start(adj) == [raised |-> FALSE, diags |-> <<>>,
                       resolved |-> [i \in 1..Len(ents) |-> Unset], reached |-> {},
                       order |-> <<>>, graph |-> adj]
        sorted(adj, ts) ==
            IF ts.cycle
            THEN [start(adj) EXCEPT !.diags =
                      <<CycleError(ts.message, entities_by_id(ents, ts.message.s[2]))>>]
            ELSE resolve_in_order(ents, tab, ts.order, 1, start(adj))
    IN sorted(build_graph(ents, tab, 1, <<>>),
              topological_sort(build_graph(ents, tab, 1, <<>>)))

\* a ValidationError entry of pydantic for the payload field against its
\* annotation: "none", "ref" (the failing value is a reference string) or
\* "real"
p_error(e) ==
    LET ann == model_registry_of[e.cls]
    IN IF ann.kind = "listref"
       THEN (IF e.p.k = "list" THEN "none" ELSE IF e.p.k = "ref" THEN "ref" ELSE "real")
       ELSE (IF e.p.k \in {"lit", "ref", "mixed"} THEN "none" ELSE "real")

real_errors(e) == e.viol \/ p_error(e) = "real"

\* Validator.check_schema: E0363 for an `id` key in the body, E0361 when an
\* error is left after the reference-shaped ones are dropped
RECURSIVE check_schema(_, _)
check_schema(ents, i) ==
    IF i > Len(ents) THEN <<>>
    ELSE (IF ents[i].idInBody THEN <<Diag("E0363", "error", i, Str(<<ents[i].id>>))>> ELSE <<>>)
         \o (IF real_errors(ents[i]) THEN <<Diag("E0361", "error", i, Str(<<ents[i].id>>))>> ELSE <<>>)
         \o check_schema(ents, i + 1)

\* Validator.check_structure_only: model_construct skips validation and a
\* ValidationError of the fallback is ignored
check_structure_only(ents) == <<>>

\* Validator.run_validators_only: E0361 as in check_schema, no E0363
RECURSIVE run_validators_only(_, _)
run_validators_only(ents, i) ==
    IF i > Len(ents) THEN <<>>
    ELSE (IF real_errors(ents[i]) THEN <<Diag("E0361", "error", i, Str(<<ents[i].id>>))>> ELSE <<>>)
         \o run_validators_only(ents, i + 1)

(***************************************************************************)
(* Scanner, linker and spec runner on a project                            *)
(***************************************************************************)
\* a project is [ents, scan, lint, lnk, spec]: the entity blocks and the
\* outcome of the parts of the pipeline that do not depend on them
NoDetail == Str(<<>>)

scanner_scan(proj) ==
    IF proj.scan = "err" THEN <<Diag("E0101", "error", 0, NoDetail)>> ELSE <<>>

\* Scanner.lint appends to the diagnostics of the scan
scanner_lint(proj) ==
    scanner_scan(proj)
    \o (IF proj.lint = "err" THEN <<Diag("E0102", "error", 0, NoDetail)>> ELSE <<>>)

\* Linker.link: model execution, then entity registration
linker_link(proj) ==
    LET m == IF proj.lnk = "err" THEN <<Diag("E0221", "error", 0, NoDetail)>>
             ELSE IF proj.lnk = "warn" THEN <<Diag("E0224", "warning", 0, NoDetail)>>
             ELSE <<>>
        r == link(proj.ents)
    IN [tab |-> r.tab, diags |-> m \o r.diags]

\* SpecExecutor.execute_specs
execute_specs(proj) ==
    IF proj.spec = "fail" THEN <<Diag("E0424", "error", 0, NoDetail)>> ELSE <<>>

(***************************************************************************)
(* Compiler facade                                                         *)
(***************************************************************************)
\* The compiler object is a record of its attributes.  Every structure that
\* an operation builds carries the number of the operation that built it
\* (gen), and diag_gens holds the numbers of the operations whose
\* diagnostics are in the report.
NoProject == [ents |-> <<>>, scan |-> "ok", lint |-> "ok", lnk |-> "ok", spec |-> "ok"]

AllUnset(proj) == [i \in 1..Len(proj.ents) |-> Unset]

GensOf(ds, n) == IF Len(ds) = 0 THEN {} ELSE {n}

\* Compiler.__init__
NewCompiler ==
    [documents |-> [gen |-> 0, proj |-> NoProject],
     resolved |-> <<>>,
     reached |-> {},
     order |-> <<>>,
     symbol_table |-> [gen |-> 0, tab |-> EmptyTable],
     model_registry |-> [gen |-> 0],
     dependency_graph |-> [gen |-> 0, adj |-> <<>>],
     diagnostics |-> <<>>,
     diag_gens |-> {}]

\* a pass that ran: its stage (1 syntax, 2 structure/schema, 3 local,
\* 4 global resolution, 5 specs) and whether it produced an error
Pass(name, stage, ds) == [pass |-> name, stage |-> stage, err |-> has_errors(ds)]

Result(c, passed, outcome, trace) ==
    [c |-> c, passed |-> passed, outcome |-> outcome, trace |-> trace]

compile_resetKeep(old) == old

\* compile: self.diagnostics = DiagnosticReport()
compile_reset(old) == <<>>

\* compile: specs run only when no error has been reported
specs_guard(ds) == ~has_errors(ds)

\* Compiler.compile(run_specs=True) on the project the source provider shows
compile(c, proj, n) ==
    LET d0 == compile_reset(c.diagnostics)
        g0 == IF Len(d0) = 0 THEN {} ELSE c.diag_gens
        run(sc, L, cs, V, sp) ==
            LET d2 == d0 \o sc \o L.diags
                d3 == d2 \o cs \o V.diags
                d4 == d3 \o sp
                c2 == [c EXCEPT !.documents = [gen |-> n, proj |-> proj],
                                !.resolved = V.resolved,
                                !.reached = V.reached, !.order = V.order,
                                !.symbol_table = [gen |-> n, tab |-> L.tab],
                                !.model_registry = [gen |-> n],
                                !.diagnostics = d2,
                                !.diag_gens = g0 \cup GensOf(d2, n)]
                c3 == [c2 EXCEPT !.diagnostics = d3,
                                 !.diag_gens = g0 \cup GensOf(d3, n),
                                 !.dependency_graph = [gen |-> n, adj |-> V.graph]]
                c4 == [c3 EXCEPT !.diagnostics = d4, !.diag_gens = g0 \cup GensOf(d4, n)]
                t3 == <<Pass("scan", 1, sc), Pass("link", 2, L.diags),
                        Pass("check_schema", 2, cs), Pass("validate", 4, V.diags)>>
            IN IF V.raised THEN Result(c2, FALSE, "crashed", t3)
               ELSE IF specs_guard(d3)
               THEN Result(c4, ~has_errors(d4), IF has_errors(d4) THEN "failed" ELSE "passed",
                           Append(t3, Pass("specs", 5, sp)))
               ELSE Result(c3, FALSE, "failed", t3)
    IN run(scanner_scan(proj), linker_link(proj), check_schema(proj.ents, 1),
           validate(proj.ents, linker_link(proj).tab), execute_specs(proj))

\* ValidationService.lint and Compiler.lint
lint(c, proj, n) ==
    LET run(sc, li) ==
            Result([c EXCEPT !.documents = [gen |-> n, proj |-> proj],
                             !.resolved = AllUnset(proj), !.reached = {}, !.order = <<>>,
                             !.diagnostics = sc \o li, !.diag_gens = GensOf(sc \o li, n)],
                   ~has_errors(sc \o li),
                   IF has_errors(sc \o li) THEN "failed" ELSE "passed",
                   <<Pass("scan", 1, sc), Pass("lint", 1, li)>>)
    IN run(scanner_scan(proj), scanner_lint(proj))

\* ValidationService._run_validation, started with the diagnostics d0
run_validation(c, proj, n, d0, run_validators, t0) ==
    LET run(L, vd) ==
            LET d1 == d0 \o L.diags
                d2 == d1 \o vd
                c1 == [c EXCEPT !.symbol_table = [gen |-> n, tab |-> L.tab],
                                !.model_registry = [gen |-> n],
                                !.diagnostics = d1, !.diag_gens = GensOf(d1, n)]
                c2 == [c1 EXCEPT !.diagnostics = d2, !.diag_gens = GensOf(d2, n)]
                t1 == Append(t0, Pass("link", 2, L.diags))
                t2 == Append(t1, Pass(IF run_validators THEN "check_schema"
                                                    ELSE "check_structure_only", 2, vd))
            IN IF has_errors(d1) THEN Result(c1, FALSE, "failed", t1)
               ELSE Result(c2, ~has_errors(d2),
                           IF has_errors(d2) THEN "failed" ELSE "passed", t2)
    IN run(linker_link(proj),
           IF run_validators THEN check_schema(proj.ents, 1)
           ELSE check_structure_only(proj.ents))

\* Compiler.check_structure
check_structure(c, proj, n) ==
    LET after(l) == IF ~l.passed THEN l
                    ELSE run_validation(l.c, proj, n, <<>>, FALSE, l.trace)
    IN after(lint(c, proj, n))

\* Compiler.check_local
check_local(c, proj, n) ==
    LET validators(r, vd) ==
            IF ~r.passed THEN r
            ELSE Result([r.c EXCEPT !.diagnostics = @ \o vd,
                                    !.diag_gens = GensOf(r.c.diagnostics \o vd, n)],
                        ~has_errors(r.c.diagnostics \o vd),
                        IF has_errors(r.c.diagnostics \o vd) THEN "failed" ELSE "passed",
                        Append(r.trace, Pass("run_validators_only", 3, vd)))
        after(l) ==
            IF ~l.passed
            THEN Result([l.c EXCEPT !.symbol_table = [gen |-> n, tab |-> EmptyTable],
                                    !.model_registry = [gen |-> n]],
                        FALSE, "failed", l.trace)
            ELSE validators(run_validation(l.c, proj, n, l.c.diagnostics, TRUE, l.trace),
                            run_validators_only(proj.ents, 1))
    IN after(lint(c, proj, n))

\* Compiler.check_global
check_global(c, proj, n) == compile(c, proj, n)

\* Compiler.recompile: validate_in_memory on the documents held, then specs;
\* an exception of the validator leaves the attributes as they were
recompile(c, n) ==
    LET run(L, cs, V, sp) ==
            LET d1 == L.diags \o cs \o V.diags
                d2 == d1 \o sp
                c1 == [c EXCEPT !.resolved = V.resolved, !.reached = V.reached, !.order = V.order,
                                !.symbol_table = [gen |-> n, tab |-> L.tab],
                                !.model_registry = [gen |-> n],
                                !.dependency_graph = [gen |-> n, adj |-> V.graph],
                                !.diagnostics = d1, !.diag_gens = GensOf(d1, n)]
                c2 == [c1 EXCEPT !.diagnostics = d2, !.diag_gens = GensOf(d2, n)]
                t1 == <<Pass("link", 2, L.diags), Pass("check_schema", 2, cs),
                        Pass("validate", 4, V.diags)>>
            IN IF V.raised
               THEN Result([c EXCEPT !.resolved = V.resolved, !.reached = V.reached, !.order = V.order],
                           FALSE, "raised", t1)
               ELSE IF ~has_errors(d1)
               THEN Result(c2, ~has_errors(d2), IF has_errors(d2) THEN "failed" ELSE "passed",
                           Append(t1, Pass("specs", 5, sp)))
               ELSE Result(c1, FALSE, "failed", t1)
    IN run(linker_link(c.documents.proj), check_schema(c.documents.proj.ents, 1),
           validate(c.documents.proj.ents, linker_link(c.documents.proj).tab),
           execute_specs(c.documents.proj))

(***************************************************************************)
(* State                                                                   *)
(***************************************************************************)
VARIABLES
    disk,       \* the project the source provider shows to the scanner
    compiler,   \* the Compiler object
    calls,      \* number of compiler operations issued so far
    lastOp,     \* the operation that returned last: [name, n, outcome]
    prevOp,     \* the operation before it, with the report it left
    cli,        \* the run of the `check` command: position, stages, exit code
    provider,   \* the OverlayProvider: [overlay, memory_only]
    files,      \* the text of each path on disk (None: no such file)
    parsed,     \* the text each document of the compiler was parsed from
    hist,       \* the overlay operations issued so far, in order
    read,       \* the last get_content: path, result, operations before it
    nops,       \* number of source operations issued so far
    table,      \* the SymbolTable of a linker run
    reg_diags,  \* the diagnostics of the registrations
    regs,       \* the registrations offered so far, in document-walk order
    found,      \* the last resolve_id: name, directory, block returned
    answer,     \* the last Compiler.query: the query and what it returned
    query_svc,  \* Compiler._query_svc: the QueryService and the table it was made with
    lock,       \* the lock of the language server: its holder, or NoHolder
    handlers,   \* the request each handler thread is serving and its position
    issued,     \* number of requests received so far
    report_of,  \* the contents the compiler's current diagnostics were computed from
    published,  \* the contents behind the diagnostics published last
    last,       \* the last overlay mutation or publication: [op, by, locked]
    loaded,     \* the files of the last loadProject, until the next mutation
    edited,     \* the text of the last didChange of each path since the last clear
    now,        \* milliseconds since the server started
    timer,      \* Debouncer.timer of the validation debouncer
    burst,      \* the didChange notifications since the debounced function last ran
    debounced,  \* the last run of the debounced function
    report,     \* the diagnostics of the compiler the server publishes from
    client,     \* the diagnostic list the client last received for each document
    validated,  \* the content each document was last validated with by the debounced function
    sandbox,    \* the sandbox executor's configuration and the module objects it hands out
    execution,  \* the last sandbox execution
    probe       \* the last call of a function examined on its own: input and result

cvars == <<disk, compiler, calls, lastOp, prevOp, cli>>
svars == <<provider, files, parsed, hist, read, nops>>
tvars == <<table, reg_diags, regs, found>>
qvars == <<answer, query_svc>>
lvars == <<lock, handlers, issued, report_of, published, last, loaded, edited>>
dvars == <<now, timer, burst, debounced, validated>>
pvars == <<report, client>>
xvars == <<sandbox, execution>>
fvars == <<probe>>
vars == <<cvars, svars, tvars, qvars, lvars, dvars, pvars, xvars, fvars>>

\* no `check` command is running
Idle ==
    [pc |-> "idle", target |-> 0, idx |-> 0, all_passed |-> TRUE,
     stage_results |-> <<>>, exit_code |-> -1, trace |-> <<>>]

NoOp == [name |-> "none", n |-> 0, outcome |-> "none", diagnostics |-> <<>>]

(***************************************************************************)
(* Source provider: overlay over disk                                      *)
(***************************************************************************)
Paths == {"p", "q"}
Texts == {"c1", "bad"}
DiskText == "d"

NoOverlay == [q \in Paths |-> None]

\* OverlayProvider.update_overlay: replaces the entry of the path
update_overlay(prov, path, text) == [prov EXCEPT !.overlay[path] = text]

clear_overlayKeep(prov) == prov

\* OverlayProvider.clear_overlay: drops all entries
clear_overlay(prov) == [prov EXCEPT !.overlay = NoOverlay]

Text(t) == [ok |-> TRUE, text |-> t]
Rejected == [ok |-> FALSE, text |-> None]

\* OverlayProvider.get_content: the overlay wins when present; memory-only
\* mode rejects disk access; a path missing on disk cannot be read
get_content(prov, fs, path) ==
    IF prov.overlay[path] # None THEN Text(prov.overlay[path])
    ELSE IF prov.memory_only THEN Rejected
    ELSE IF fs[path] = None THEN Rejected
    ELSE Text(fs[path])

\* TypedownParser.parse_text fails on text that is not a document
parses(text) == text # "bad"

\* SourceService.update_source: the overlay is updated, then the text is
\* parsed; on a parse error the document is left as it was
update_source(prov, docs, path, text) ==
    [provider |-> update_overlay(prov, path, text),
     docs |-> IF parses(text) THEN [docs EXCEPT ![path] = text] ELSE docs,
     ok |-> parses(text)]

NoRead == [path |-> None, result |-> Rejected, after |-> -1]

SourceAtRest ==
    /\ provider = [overlay |-> NoOverlay, memory_only |-> FALSE]
    /\ files = [q \in Paths |-> None]
    /\ parsed = [q \in Paths |-> None]
    /\ hist = <<>>
    /\ read = NoRead
    /\ nops = 0

NoFind == [name |-> None, dir |-> Root, blk |-> 0]

TableAtRest ==
    /\ table = EmptyTable
    /\ reg_diags = <<>>
    /\ regs = <<>>
    /\ found = NoFind

NoAnswer == [asked |-> FALSE, q |-> <<>>, ok |-> FALSE, val |-> Absent, err |-> None]

\* Compiler.__init__: self._query_svc = None
NoService == [made |-> FALSE, symbol_table |-> [gen |-> 0, tab |-> EmptyTable]]

QueryAtRest ==
    /\ answer = NoAnswer
    /\ query_svc = NoService

\* the language server before any request
NoHolder == "free"
Slots == {"h1", "h2"}
IdleHandler == [pc |-> "idle", kind |-> None, path |-> None, text |-> None,
                files |-> <<>>, k |-> 0]
NoReport == [q \in Paths |-> "unset"]
NoStep == [op |-> None, by |-> None, locked |-> FALSE]
NotLoaded == [set |-> FALSE, map |-> NoOverlay, replaced |-> FALSE]

LspAtRest ==
    /\ lock = NoHolder
    /\ handlers = [h \in Slots |-> IdleHandler]
    /\ issued = 0
    /\ report_of = NoReport
    /\ published = NoReport
    /\ last = NoStep
    /\ loaded = NotLoaded
    /\ edited = NoOverlay

NoTimer == [armed |-> FALSE, deadline |-> 0, uri |-> None, content |-> None]
NoBurst == [edits |-> 0, latest |-> 0, content |-> None]
NoRun == [runs |-> 0, op |-> None, delay |-> 0, locked |-> FALSE, content |-> None,
          edits |-> 0]

DebounceAtRest ==
    /\ now = 0
    /\ timer = NoTimer
    /\ burst = NoBurst
    /\ debounced = NoRun
    /\ validated = [q \in Paths |-> None]

\* the client has received no diagnostics for the document yet
NotSent == [sent |-> FALSE, diagnostics |-> <<>>]

ClientAtRest ==
    /\ report = <<>>
    /\ client = [q \in Paths |-> NotSent]

\* the attributes of the module objects importlib.import_module returns, as
\* the interpreter loaded them
Modules == {"math", "json"}
PristineModules == [m \in Modules |-> "original"]

NoExecution ==
    [n |-> 0, code |-> [op |-> None, module |-> None, value |-> None],
     outcome |-> None, globals |-> {}, observed |-> None]

SandboxAtRest ==
    /\ sandbox = [restricted |-> FALSE, modules |-> PristineModules]
    /\ execution = NoExecution

NoProbe == [fn |-> None, n |-> 0]
ProbeAtRest == probe = NoProbe

CompilerAtRest ==
    /\ disk = NoProject
    /\ compiler = NewCompiler
    /\ calls = 0
    /\ lastOp = NoOp
    /\ prevOp = NoOp
    /\ cli = Idle

Finish(name, r) ==
    /\ compiler' = r.c
    /\ calls' = calls + 1
    /\ lastOp' = [name |-> name, n |-> calls + 1, outcome |-> r.outcome,
                  diagnostics |-> r.c.diagnostics]
    /\ prevOp' = lastOp

DoCheckGlobal(limit) ==
    /\ calls < limit
    /\ Finish("check_global", check_global(compiler, disk, calls + 1))
    /\ UNCHANGED <<disk, cli, svars, tvars, qvars, lvars, dvars, pvars, xvars, fvars>>

(***************************************************************************)
(* Global stage on bounded projects                                        *)
(***************************************************************************)
ClsOf(i) == IF i % 2 = 1 THEN "User" ELSE "Order"
Succ(i) == IdOrder[(i % MaxEnt) + 1]
EntityIds == {IdOrder[i] : i \in 1..MaxEnt}
\* the first entity may sit in a subdirectory, the others are at the root
DirChoices(i) == IF i = 1 THEN {Root, <<"a">>} ELSE {Root}

FormerChoices ==
    {Absent, ListV(<<Lit("A")>>)} \cup {Ref(<<t>>) : t \in EntityIds \cup {"X"}}

PChoices(i) ==
    {Lit("B"), Ref(<<Succ(i)>>), Ref(<<"X">>), Mixed(<<Succ(i)>>), Mixed(<<"X">>),
     ListV(<<Ref(<<Succ(i)>>), Mixed(<<"X">>)>>), ListV(<<Ref(<<"X">>)>>)}

EntChoices(i) ==
    {[id |-> IdOrder[i], dir |-> d, cls |-> ClsOf(i), idInBody |-> FALSE, viol |-> FALSE,
      former |-> f, p |-> pv] : d \in DirChoices(i), f \in FormerChoices, pv \in PChoices(i)}

RECURSIVE EntSeqs(_)
EntSeqs(n) ==
    IF n = 0 THEN {<<>>}
    ELSE {Append(es, e) : es \in EntSeqs(n - 1), e \in EntChoices(n)}

ValidateProjects ==
    {[ents |-> es, scan |-> "ok", lint |-> "ok", lnk |-> "ok", spec |-> "ok"] :
        es \in EntSeqs(MaxEnt)}

InitValidate ==
    /\ disk \in ValidateProjects
    /\ compiler = NewCompiler
    /\ calls = 0
    /\ lastOp = NoOp
    /\ prevOp = NoOp
    /\ cli = Idle
    /\ SourceAtRest
    /\ TableAtRest
    /\ QueryAtRest
    /\ LspAtRest
    /\ DebounceAtRest
    /\ ClientAtRest
    /\ SandboxAtRest
    /\ ProbeAtRest

NextValidate == DoCheckGlobal(1)

SpecValidate == InitValidate /\ [][NextValidate]_vars

\* ---- properties of the global stage
Ran == lastOp.name = "check_global"
Completed == Ran /\ lastOp.outcome # "crashed"

DiagsAt(code, i) ==
    SelectSeq(compiler.diagnostics, LAMBDA d : d.code = code /\ d.at = i)

\* a [[r]] of the raw value that the resolved value still holds
StillHolds(raw, rv) ==
    \/ raw.k \in {"ref", "mixed"} /\ rv = raw
    \/ /\ raw.k = "list" /\ rv.k = "list" /\ Len(rv.items) = Len(raw.items)
       /\ \E j \in 1..Len(raw.items) :
            raw.items[j].k \in {"ref", "mixed"} /\ rv.items[j] = raw.items[j]

Unreplaced(i) ==
    \/ StillHolds(disk.ents[i].p, compiler.resolved[i].p)
    \/ StillHolds(disk.ents[i].former, compiler.resolved[i].former)

\* C2: for every entity the global stage reached, each [[r]] of raw_data
\* (a whole value or inside a longer string, at any depth) is replaced in
\* resolved_data or an E0341 has been reported for the entity
C2_EveryReferenceReplacedOrE0341 ==
    Completed =>
        \A i \in compiler.reached :
            Unreplaced(i) => Len(DiagsAt("E0341", i)) >= 1

\* the former relation of the project, and whether it has a cycle
FormerAdj ==
    [id \in {disk.ents[i].id : i \in 1..Len(disk.ents)} |->
        {t \in Range(former_ids(disk.ents[entities_by_id(disk.ents, id)])) :
            \E j \in 1..Len(disk.ents) : disk.ents[j].id = t}]

FormerCycle == HasCycle(FormerAdj)

\* p is a closed path of the former relation: first id repeated at the end
IsClosedCycle(path) ==
    /\ Len(path) >= 2
    /\ path[1] = path[Len(path)]
    /\ \A k \in 1..(Len(path) - 1) :
          path[k] \in DOMAIN FormerAdj /\ path[k + 1] \in FormerAdj[path[k]]

\* C9: a `former` cycle is reported as exactly one E0342 whose details.cycle
\* is the list of the ids on the cycle, closed by repeating the first id
C9_CycleReportedAsIdList ==
    (Ran /\ FormerCycle) =>
        /\ Len(by_code(compiler.diagnostics, "E0342")) = 1
        /\ by_code(compiler.diagnostics, "E0342")[1].details.t = "list"
        /\ IsClosedCycle(by_code(compiler.diagnostics, "E0342")[1].details.s)

PayloadAdj ==
    [id \in {disk.ents[i].id : i \in 1..Len(disk.ents)} |->
        RefsOf(disk.ents[entities_by_id(disk.ents, id)].p)]

PositionOf(i) ==
    IF \E k \in 1..Len(compiler.order) : compiler.order[k] = i
    THEN CHOOSE k \in 1..Len(compiler.order) : compiler.order[k] = i
    ELSE 0

FormerUnresolved(i) ==
    /\ disk.ents[i].former.k \in {"ref", "lit"}
    /\ ~\E j \in 1..Len(disk.ents) :
          /\ disk.ents[j].id = disk.ents[i].former.q[1]
          /\ \E k \in 0..Len(disk.ents[i].dir) :
                disk.ents[j].dir = SubSeq(disk.ents[i].dir, 1, k)

TargetOf(i, v) ==
    IF v.k \in {"ref", "lit"} /\ Len(v.q) = 1
    THEN resolve_id(compiler.symbol_table.tab, v.q[1], disk.ents[i].dir)
    ELSE 0

Admissible(ann, j) == \E k \in 1..Len(ann.targets) : ann.targets[k] = disk.ents[j].cls

\* the values under a Ref annotation of entity i: the field itself, or each
\* item of a list-of-reference field
RefValues(i) ==
    LET ann == model_registry_of[disk.ents[i].cls]
        v == disk.ents[i].p
    IN IF ann.kind = "ref" THEN {v}
       ELSE IF ann.kind = "listref" /\ v.k = "list" THEN Range(v.items)
       ELSE {}

MismatchedTarget(i) ==
    \E v \in RefValues(i) :
        /\ TargetOf(i, v) # 0
        /\ ~Admissible(model_registry_of[disk.ents[i].cls], TargetOf(i, v))

\* C13: for every entity whose references all resolved and that has a field
\* typed Ref[T1, T2, ...], an E0362 is reported exactly when the class of
\* the target entity is not among T1, T2, ...
C13_E0362IffTargetNotAdmissible ==
    Completed =>
        \A i \in compiler.reached :
            Len(DiagsAt("E0341", i)) = 0 =>
                ((Len(DiagsAt("E0362", i)) >= 1) <=> MismatchedTarget(i))

(***************************************************************************)
(* Sequences of compiler operations on a family of projects                *)
(***************************************************************************)
E(id, cls, former, p) ==
    [id |-> id, dir |-> Root, cls |-> cls, idInBody |-> FALSE, viol |-> FALSE,
     former |-> former, p |-> p]

Proj(ents, sc, li, lk, sp) ==
    [ents |-> ents, scan |-> sc, lint |-> li, lnk |-> lk, spec |-> sp]

CleanEnts == <<E("A", "User", Absent, Lit("B")), E("B", "Order", Absent, Ref(<<"A">>))>>

FacadeProjects ==
    { Proj(CleanEnts, "ok", "ok", "ok", "ok"),
      Proj(CleanEnts, "err", "ok", "ok", "ok"),
      Proj(CleanEnts, "ok", "err", "ok", "ok"),
      Proj(CleanEnts, "ok", "ok", "err", "ok"),
      Proj(CleanEnts, "ok", "ok", "warn", "ok"),
      Proj(CleanEnts, "ok", "ok", "ok", "fail"),
      Proj(<<[E("A", "User", Absent, Lit("B")) EXCEPT !.idInBody = TRUE]>>,
           "ok", "ok", "ok", "ok"),
      Proj(<<[E("A", "User", Absent, Lit("B")) EXCEPT !.viol = TRUE]>>,
           "ok", "ok", "ok", "ok"),
      Proj(<<E("A", "User", ListV(<<Lit("B")>>), Lit("B")), E("B", "User", Absent, Lit("B"))>>,
           "ok", "ok", "ok", "ok"),
      Proj(<<E("A", "Order", Absent, Ref(<<"X">>))>>, "ok", "ok", "ok", "ok"),
      Proj(<<E("A", "User", Ref(<<"B">>), Lit("B")), E("B", "User", Ref(<<"A">>), Lit("B"))>>,
           "ok", "ok", "ok", "ok"),
      Proj(<<E("A", "User", Absent, Lit("B")), E("A", "User", Absent, Lit("A"))>>,
           "ok", "ok", "ok", "ok") }

DoLint ==
    /\ calls < MaxCalls
    /\ Finish("lint", lint(compiler, disk, calls + 1))
    /\ UNCHANGED <<disk, cli, svars, tvars, qvars, lvars, dvars, pvars, xvars, fvars>>

DoCheckStructure ==
    /\ calls < MaxCalls
    /\ Finish("check_structure", check_structure(compiler, disk, calls + 1))
    /\ UNCHANGED <<disk, cli, svars, tvars, qvars, lvars, dvars, pvars, xvars, fvars>>

DoCheckLocal ==
    /\ calls < MaxCalls
    /\ Finish("check_local", check_local(compiler, disk, calls + 1))
    /\ UNCHANGED <<disk, cli, svars, tvars, qvars, lvars, dvars, pvars, xvars, fvars>>

\* recompile works on the documents of an earlier scan
DoRecompile ==
    /\ calls < MaxCalls
    /\ compiler.documents.gen > 0
    /\ Finish("recompile", recompile(compiler, calls + 1))
    /\ UNCHANGED <<disk, cli, svars, tvars, qvars, lvars, dvars, pvars, xvars, fvars>>

\* the files of the project change between two operations
DoEdit ==
    /\ calls < MaxCalls
    /\ lastOp.name # "edit"
    /\ \E proj \in FacadeProjects \ {disk} : disk' = proj
    /\ lastOp' = [NoOp EXCEPT !.name = "edit", !.n = calls]
    /\ prevOp' = lastOp
    /\ UNCHANGED <<compiler, calls, cli, svars, tvars, qvars, lvars, dvars, pvars, xvars, fvars>>

\* a new process: the next operation runs on a new Compiler object
DoNewSession ==
    /\ compiler # NewCompiler
    /\ compiler' = NewCompiler
    /\ UNCHANGED <<disk, calls, lastOp, prevOp, cli, svars, tvars, qvars, lvars, dvars, pvars, xvars, fvars>>

InitFacade ==
    /\ disk \in FacadeProjects
    /\ compiler = NewCompiler
    /\ calls = 0
    /\ lastOp = NoOp
    /\ prevOp = NoOp
    /\ cli = Idle
    /\ SourceAtRest
    /\ TableAtRest
    /\ QueryAtRest
    /\ LspAtRest
    /\ DebounceAtRest
    /\ ClientAtRest
    /\ SandboxAtRest
    /\ ProbeAtRest

NextFacade ==
    \/ DoCheckGlobal(MaxCalls)
    \/ DoLint
    \/ DoCheckStructure
    \/ DoCheckLocal
    \/ DoRecompile
    \/ DoEdit
    \/ DoNewSession

SpecFacade == InitFacade /\ [][NextFacade]_vars

\* C3: check_global twice in succession on an unchanged project yields
\* identical diagnostic lists (equal length, order and contents)
C3_CheckGlobalTwiceSameDiagnostics ==
    (lastOp.name = "check_global" /\ prevOp.name = "check_global")
        => lastOp.diagnostics = prevOp.diagnostics

\* two runs in succession that both reported something
C3_Witness ==
    /\ lastOp.name = "check_global" /\ prevOp.name = "check_global"
    /\ Len(lastOp.diagnostics) > 0
    /\ lastOp.diagnostics = prevOp.diagnostics

\* C4: after any compile() returns, whatever its outcome, the symbol table,
\* model registry, dependency graph and diagnostic list are the ones this
\* call built: none holds anything of an earlier operation
C4_CompileRebuildsEverything ==
    lastOp.name = "check_global" =>
        /\ compiler.symbol_table.gen \notin 1..(lastOp.n - 1)
        /\ compiler.model_registry.gen \notin 1..(lastOp.n - 1)
        /\ compiler.dependency_graph.gen \notin 1..(lastOp.n - 1)
        /\ compiler.diag_gens \cap 1..(lastOp.n - 1) = {}

\* the last operation ran the schema sub-stage on the documents it scanned:
\* check_structure and check_local after a clean lint and link, compile and
\* recompile always (unless they crashed)
SchemaStageRan ==
    \/ /\ lastOp.name \in {"check_structure", "check_local"}
       /\ ~has_errors(scanner_scan(compiler.documents.proj)
                      \o scanner_lint(compiler.documents.proj))
       /\ ~has_errors(linker_link(compiler.documents.proj).diags)
    \/ /\ lastOp.name \in {"check_global", "recompile"}
       /\ lastOp.outcome \notin {"crashed", "raised"}

\* C14: after a run that reached the schema stage, every entity with a
\* top-level `id` key in its body has exactly one E0363, and its schema
\* violation, if it has one, is reported as well
C14_IdInBodyOneE0363 ==
    SchemaStageRan =>
        \A i \in 1..Len(compiler.documents.proj.ents) :
            compiler.documents.proj.ents[i].idInBody =>
                /\ Len(DiagsAt("E0363", i)) = 1
                /\ real_errors(compiler.documents.proj.ents[i])
                      => Len(DiagsAt("E0361", i)) >= 1

(***************************************************************************)
(* The `check` command                                                     *)
(***************************************************************************)
StageNames == <<"syntax", "structure", "local", "global">>

\* _run_stage
run_stage(c, proj, n, idx) ==
    IF idx = 1 THEN lint(c, proj, n)
    ELSE IF idx = 2 THEN check_structure(c, proj, n)
    ELSE IF idx = 3 THEN check_local(c, proj, n)
    ELSE check_global(c, proj, n)

StopNever(passed) == FALSE

\* check: `if not passed: ... break`
StopOnFailure(passed) == ~passed

\* check is started with a target stage; cli_session builds a new Compiler
CheckStart ==
    /\ cli.pc = "idle"
    /\ \E t \in 1..Len(StageNames) :
          cli' = [Idle EXCEPT !.pc = "loop", !.target = t, !.idx = 1]
    /\ compiler' = NewCompiler
    /\ UNCHANGED <<disk, calls, lastOp, prevOp, svars, tvars, qvars, lvars, dvars, pvars, xvars, fvars>>

\* one iteration of `for s in stages_to_run`
CheckStage ==
    /\ cli.pc = "loop"
    /\ LET returns(r) ==
              /\ Finish(StageNames[cli.idx], r)
              /\ cli' = [cli EXCEPT
                    !.trace = @ \o r.trace,
                    !.stage_results = Append(@, r.passed),
                    !.all_passed = @ /\ r.passed,
                    !.idx = @ + 1,
                    !.pc = IF StopOnFailure(r.passed) \/ cli.idx = cli.target
                           THEN "report" ELSE "loop"]
       IN returns(run_stage(compiler, disk, calls + 1, cli.idx))
    /\ UNCHANGED <<disk, svars, tvars, qvars, lvars, dvars, pvars, xvars, fvars>>

\* the report, and typer.Exit(code=1) when a stage failed
CheckExit ==
    /\ cli.pc = "report"
    /\ cli' = [cli EXCEPT !.pc = "done",
                          !.exit_code = IF cli.all_passed THEN 0 ELSE 1]
    /\ UNCHANGED <<disk, compiler, calls, lastOp, prevOp, svars, tvars, qvars, lvars, dvars, pvars, xvars, fvars>>

InitCheck ==
    /\ disk \in FacadeProjects
    /\ compiler = NewCompiler
    /\ calls = 0
    /\ lastOp = NoOp
    /\ prevOp = NoOp
    /\ cli = Idle
    /\ SourceAtRest
    /\ TableAtRest
    /\ QueryAtRest
    /\ LspAtRest
    /\ DebounceAtRest
    /\ ClientAtRest
    /\ SandboxAtRest
    /\ ProbeAtRest

NextCheck == CheckStart \/ CheckStage \/ CheckExit

SpecCheck == InitCheck /\ [][NextCheck]_vars

\* C1: once a pass of some stage has produced an error-level diagnostic, no
\* pass of a later stage is executed in that run of the command
C1_FailureAbortsLaterStages ==
    \A i \in 1..Len(cli.trace) : \A j \in 1..Len(cli.trace) :
        (i < j /\ cli.trace[i].err) => cli.trace[j].stage <= cli.trace[i].stage

\* a run asked for the global stage that stopped at the structure stage
C1_Witness ==
    /\ cli.pc = "done" /\ cli.target = 4
    /\ Len(cli.stage_results) = 2
    /\ \E i \in 1..Len(cli.trace) : cli.trace[i].err /\ cli.trace[i].stage = 2
    /\ \A i \in 1..Len(cli.trace) : cli.trace[i].stage <= 2

\* C6: the command exits with code 1 iff a stage it ran produced at least
\* one error-level diagnostic
C6_ExitOneIffErrorDiagnostic ==
    cli.pc = "done" =>
        (cli.exit_code = 1 <=> \E i \in 1..Len(cli.trace) : cli.trace[i].err)

(***************************************************************************)
(* Overlay operations                                                      *)
(***************************************************************************)
DoUpdateSource ==
    /\ nops < MaxOps
    /\ \E path \in Paths, text \in Texts :
          LET r == update_source(provider, parsed, path, text)
          IN /\ provider' = r.provider
             /\ parsed' = r.docs
             /\ hist' = Append(hist, [op |-> "update", path |-> path, text |-> text])
    /\ nops' = nops + 1
    /\ UNCHANGED <<files, read, cvars, tvars, qvars, lvars, dvars, pvars, xvars, fvars>>

\* typedown/resetFileSystem
DoClearOverlay ==
    /\ nops < MaxOps
    /\ provider' = clear_overlay(provider)
    /\ hist' = Append(hist, [op |-> "clear", path |-> None, text |-> None])
    /\ nops' = nops + 1
    /\ UNCHANGED <<files, parsed, read, cvars, tvars, qvars, lvars, dvars, pvars, xvars, fvars>>

DoGetContent ==
    /\ nops < MaxOps
    /\ \E path \in Paths :
          read' = [path |-> path, result |-> get_content(provider, files, path),
                   after |-> Len(hist)]
    /\ nops' = nops + 1
    /\ UNCHANGED <<provider, files, parsed, hist, cvars, tvars, qvars, lvars, dvars, pvars, xvars, fvars>>

InitOverlay ==
    /\ provider \in {[overlay |-> NoOverlay, memory_only |-> m] : m \in BOOLEAN}
    /\ files \in [Paths -> {None, DiskText}]
    /\ parsed = [q \in Paths |-> None]
    /\ hist = <<>>
    /\ read = NoRead
    /\ nops = 0
    /\ CompilerAtRest
    /\ TableAtRest
    /\ QueryAtRest
    /\ LspAtRest
    /\ DebounceAtRest
    /\ ClientAtRest
    /\ SandboxAtRest
    /\ ProbeAtRest

NextOverlay == DoUpdateSource \/ DoClearOverlay \/ DoGetContent

SpecOverlay == InitOverlay /\ [][NextOverlay]_vars

\* the text of the most recent update of the path since the last clear,
\* among the first n operations; None when there is no such update
RECURSIVE LatestUpdate(_, _)
LatestUpdate(n, path) ==
    IF n = 0 THEN None
    ELSE IF hist[n].op = "clear" THEN None
    ELSE IF hist[n].path = path THEN hist[n].text
    ELSE LatestUpdate(n - 1, path)

DiskContent(path) == IF files[path] = None THEN Rejected ELSE Text(files[path])

JustRead == read.after = Len(hist) /\ read.path # None

\* C5 as stated: get_content(p) returns the text of the most recent
\* update_overlay(p, c) since the last clear_overlay, and the disk content
\* of p when there is no such update
C5_OverlayWinsElseDisk ==
    JustRead =>
        read.result = IF LatestUpdate(read.after, read.path) # None
                      THEN Text(LatestUpdate(read.after, read.path))
                      ELSE DiskContent(read.path)

\* C5 amended: as above, except that in memory-only mode a path without an
\* update since the last clear is not read from disk: the read is rejected
C5_OverlayWinsElseDiskUnlessMemoryOnly ==
    JustRead =>
        read.result = IF LatestUpdate(read.after, read.path) # None
                      THEN Text(LatestUpdate(read.after, read.path))
                      ELSE IF provider.memory_only THEN Rejected
                      ELSE DiskContent(read.path)

\* a path updated and cleared, then read back from disk
C5_Witness ==
    /\ JustRead
    /\ Len(hist) >= 2
    /\ hist[Len(hist)].op = "clear"
    /\ \E n \in 1..Len(hist) : hist[n].op = "update" /\ hist[n].path = read.path
    /\ ~provider.memory_only
    /\ read.result = Text(DiskText)

(***************************************************************************)
(* Registration and lookup in the symbol table                             *)
(***************************************************************************)
Names == {"A", "B"}
Dirs == {Root, <<"a">>, <<"a", "b">>, <<"c">>}

\* the linker offers the next block of the walk
DoRegister ==
    /\ Len(regs) < MaxReg
    /\ \E name \in Names, scope \in Dirs :
          LET r == register(table, Len(regs) + 1, name, scope)
          IN /\ table' = r.tab
             /\ reg_diags' = reg_diags \o r.err
             /\ regs' = Append(regs, [scope |-> scope, name |-> name])
    /\ found' = NoFind
    /\ UNCHANGED <<cvars, svars, qvars, lvars, dvars, pvars, xvars, fvars>>

DoResolveId ==
    /\ \E name \in Names, dir \in Dirs :
          found' = [name |-> name, dir |-> dir, blk |-> resolve_id(table, name, dir)]
    /\ UNCHANGED <<table, reg_diags, regs, cvars, svars, qvars, lvars, dvars, pvars, xvars, fvars>>

InitSym ==
    /\ TableAtRest
    /\ QueryAtRest
    /\ LspAtRest
    /\ DebounceAtRest
    /\ ClientAtRest
    /\ SandboxAtRest
    /\ ProbeAtRest
    /\ CompilerAtRest
    /\ SourceAtRest

NextSym == DoRegister \/ DoResolveId

SpecSym == InitSym /\ [][NextSym]_vars

Earlier(j) == {i \in 1..(j - 1) : regs[i] = regs[j]}
E0241At(j) == {k \in 1..Len(reg_diags) : reg_diags[k].code = "E0241" /\ reg_diags[k].at = j}

\* C7: a registration of id x in scope s that follows another registration
\* of x in s produces exactly one E0241, located at the later block; a
\* first registration produces none
C7_DuplicateReportedOnceAtLaterBlock ==
    \A j \in 1..Len(regs) :
        Cardinality(E0241At(j)) = IF Earlier(j) # {} THEN 1 ELSE 0

C7_Witness ==
    /\ Len(regs) >= 2
    /\ regs[1] = regs[2]
    /\ Cardinality(E0241At(2)) = 1
    /\ Cardinality(E0241At(1)) = 0

\* the directory itself and its ancestors up to the root
Ancestors(dir) == {SubSeq(dir, 1, k) : k \in 0..Len(dir)}
HoldingScopes(name, dir) == {d \in Ancestors(dir) : Holds(table, d, name)}
Nearest(S) == CHOOSE d \in S : \A e \in S : Len(e) <= Len(d)

\* C8: resolve_id returns the block of the nearest scope among the
\* directory of the context and its ancestors that holds the name, and
\* nothing when none of them holds it
C8_ResolveIdWalksUp ==
    found.name # None =>
        found.blk = IF HoldingScopes(found.name, found.dir) = {} THEN 0
                    ELSE At(table, Nearest(HoldingScopes(found.name, found.dir)), found.name)

\* found two levels up, while a sibling scope holds the name too
C8_Witness ==
    /\ found.name # None /\ found.dir = <<"a", "b">>
    /\ ~Holds(table, <<"a", "b">>, found.name)
    /\ ~Holds(table, <<"a">>, found.name)
    /\ Holds(table, Root, found.name)
    /\ Holds(table, <<"c">>, found.name)
    /\ found.blk = At(table, Root, found.name)

(***************************************************************************)
(* Queries on a compiled project                                           *)
(***************************************************************************)
\* QueryService.query: resolve_query from the project root
query(c, q) ==
    resolve_query(c.symbol_table.tab, c.documents.proj.ents, c.resolved, q, Root)

QueryProjects ==
    { Proj(CleanEnts, "ok", "ok", "ok", "ok"),
      Proj(<<E("A", "Cart", Absent, ListV(<<Ref(<<"B">>)>>)),
             E("B", "User", Absent, Lit("B"))>>, "ok", "ok", "ok", "ok"),
      Proj(<<E("A", "Cart", Absent, ListV(<<Ref(<<"B">>), Ref(<<"B">>)>>)),
             E("B", "User", Absent, Lit("B"))>>, "ok", "ok", "ok", "ok"),
      Proj(<<E("A", "Cart", Absent, ListV(<<Ref(<<"X">>)>>)),
             E("B", "User", Absent, Lit("B"))>>, "ok", "ok", "ok", "ok"),
      Proj(<<E("A", "User", Ref(<<"B">>), Lit("B")),
             E("B", "User", Absent, Mixed(<<"A">>))>>, "ok", "ok", "ok", "ok"),
      Proj(<<E("A", "User", Absent, Lit("B"))>>, "ok", "ok", "ok", "ok") }

QueryRoots == {"A", "B", "X"}
QueryPaths ==
    {<<>>, <<"p">>, <<"former">>, <<"missing">>, <<"p[0]">>, <<"p[9]">>, <<"p", "x">>}

\* the query command: compile, then Compiler.query
DoQuery ==
    /\ lastOp.name = "check_global"
    /\ \E root \in QueryRoots, path \in QueryPaths :
          LET returns(r) ==
                  answer' = [asked |-> TRUE, q |-> <<root>> \o path,
                             ok |-> r.ok, val |-> r.val, err |-> r.err]
          IN returns(query(compiler, <<root>> \o path))
    /\ query_svc' = IF query_svc.made THEN query_svc
                    ELSE [made |-> TRUE, symbol_table |-> compiler.symbol_table]
    /\ UNCHANGED <<cvars, svars, tvars, lvars, dvars, pvars, xvars, fvars>>

InitQuery ==
    /\ disk \in QueryProjects
    /\ compiler = NewCompiler
    /\ calls = 0
    /\ lastOp = NoOp
    /\ prevOp = NoOp
    /\ cli = Idle
    /\ SourceAtRest
    /\ TableAtRest
    /\ QueryAtRest
    /\ LspAtRest
    /\ DebounceAtRest
    /\ ClientAtRest
    /\ SandboxAtRest
    /\ ProbeAtRest

NextQuery == DoCheckGlobal(1) \/ DoQuery

SpecQuery == InitQuery /\ [][NextQuery]_vars

\* the root identifier of the last query is known from the project root
RootKnown == resolve_id(compiler.symbol_table.tab, answer.q[1], Root) # 0

\* C15: a query that fails fails with the error of its failure point:
\* ReferenceError E0341 for an unknown root identifier, QueryError E0365 for
\* a missing path segment or an index out of bounds
C15_QueryFailsWithErrorOfFailurePoint ==
    (answer.asked /\ ~answer.ok) =>
        answer.err = (IF RootKnown THEN "E0365" ELSE "E0341")

(***************************************************************************)
(* The language server: request handlers behind one lock                   *)
(***************************************************************************)
MaxReq == 3

EditTexts == {"c1", "c2", "bad"}

\* the `files` of a typedown/loadProject message, in the order of the mapping
LoadMessages ==
    { <<[path |-> "p", text |-> "c1"]>>,
      <<[path |-> "p", text |-> "c2"], [path |-> "q", text |-> "c1"]>> }

\* the overlay that holds exactly the files of a message
RECURSIVE MessageMap(_, _, _)
MessageMap(fs, k, acc) ==
    IF k > Len(fs) THEN acc
    ELSE MessageMap(fs, k + 1, [acc EXCEPT ![fs[k].path] = fs[k].text])

\* what the scanner reads through the provider for every path
View(prov, fs) ==
    [path \in Paths |->
        IF get_content(prov, fs, path).ok /\ parses(get_content(prov, fs, path).text)
        THEN get_content(prov, fs, path).text ELSE None]

may_enterAlways(l) == TRUE

\* `with ls.lock:` blocks until the lock is free
may_enter(l) == l = NoHolder

reset_entryUnlocked == "clear"

\* reset_filesystem enters `with ls.lock:` before it touches the overlay
reset_entry == "acquire"

Step(op, h) == [op |-> op, by |-> h, locked |-> lock = h]

Goto(h, pc) == handlers' = [handlers EXCEPT ![h].pc = pc]

\* a notification arrives and a handler thread starts to serve it
Receive(h) ==
    /\ handlers[h].pc = "idle"
    /\ issued < MaxReq
    /\ issued' = issued + 1
    /\ \/ \E m \in LoadMessages :
            handlers' = [handlers EXCEPT ![h] =
                [IdleHandler EXCEPT !.pc = "acquire", !.kind = "load", !.files = m]]
       \/ handlers' = [handlers EXCEPT ![h] =
                [IdleHandler EXCEPT !.pc = reset_entry, !.kind = "reset"]]
       \/ \E path \in Paths, text \in EditTexts :
            handlers' = [handlers EXCEPT ![h] =
                [IdleHandler EXCEPT !.pc = "acquire", !.kind = "change",
                                    !.path = path, !.text = text]]
    /\ UNCHANGED <<lock, report_of, published, last, loaded, edited,
                   cvars, svars, tvars, qvars, dvars, pvars, xvars, fvars>>

\* `with ls.lock:` is entered
Acquire(h) ==
    /\ handlers[h].pc = "acquire"
    /\ may_enter(lock)
    /\ lock' = h
    /\ Goto(h, IF handlers[h].kind = "change" THEN "update" ELSE "clear")
    /\ UNCHANGED <<issued, report_of, published, last, loaded, edited,
                   cvars, svars, tvars, qvars, dvars, pvars, xvars, fvars>>

\* load_project step 1: source_provider.overlay.clear()
LoadClear(h) ==
    /\ handlers[h].kind = "load" /\ handlers[h].pc = "clear"
    /\ provider' = clear_overlay(provider)
    /\ handlers' = [handlers EXCEPT ![h].pc = "hydrate", ![h].k = 1]
    /\ loaded' = [set |-> TRUE, map |-> MessageMap(handlers[h].files, 1, NoOverlay),
                  replaced |-> provider.overlay # NoOverlay]
    /\ edited' = NoOverlay
    /\ last' = Step("clear", h)
    /\ UNCHANGED <<lock, issued, report_of, published, files, parsed, hist, read, nops,
                   cvars, tvars, qvars, dvars, pvars, xvars, fvars>>

\* load_project step 2: update_overlay for the next file of the message
LoadUpdate(h) ==
    /\ handlers[h].kind = "load" /\ handlers[h].pc = "hydrate"
    /\ provider' = update_overlay(provider, handlers[h].files[handlers[h].k].path,
                                  handlers[h].files[handlers[h].k].text)
    /\ handlers' = [handlers EXCEPT
            ![h].k = @ + 1,
            ![h].pc = IF handlers[h].k = Len(handlers[h].files) THEN "compile" ELSE "hydrate"]
    /\ last' = Step("update", h)
    /\ UNCHANGED <<lock, issued, report_of, published, loaded, edited,
                   files, parsed, hist, read, nops, cvars, tvars, qvars, dvars, pvars, xvars, fvars>>

\* load_project step 3: ls.compiler.compile() scans through the provider
LoadCompile(h) ==
    /\ handlers[h].kind = "load" /\ handlers[h].pc = "compile"
    /\ parsed' = View(provider, files)
    /\ report_of' = View(provider, files)
    /\ Goto(h, "publish")
    /\ UNCHANGED <<lock, issued, published, last, loaded, edited,
                   provider, files, hist, read, nops, cvars, tvars, qvars, dvars, pvars, xvars, fvars>>

\* load_project step 4: publish_diagnostics, inside the `with` block
LoadPublish(h) ==
    /\ handlers[h].kind = "load" /\ handlers[h].pc = "publish"
    /\ published' = report_of
    /\ last' = Step("publish", h)
    /\ Goto(h, "release")
    /\ UNCHANGED <<lock, issued, report_of, loaded, edited, cvars, svars, tvars, qvars, dvars, pvars, xvars, fvars>>

\* reset_filesystem: source_provider.overlay.clear()
ResetClear(h) ==
    /\ handlers[h].kind = "reset" /\ handlers[h].pc = "clear"
    /\ provider' = clear_overlay(provider)
    /\ loaded' = NotLoaded
    /\ edited' = NoOverlay
    /\ last' = Step("clear", h)
    /\ Goto(h, "release")
    /\ UNCHANGED <<lock, issued, report_of, published, files, parsed, hist, read, nops,
                   cvars, tvars, qvars, dvars, pvars, xvars, fvars>>

\* didChange: Compiler.update_document, update_source and, when the text
\* parsed, recompile over the documents in memory
ChangeUpdate(h) ==
    /\ handlers[h].kind = "change" /\ handlers[h].pc = "update"
    /\ LET updated(r) ==
              /\ provider' = r.provider
              /\ parsed' = r.docs
              /\ report_of' = IF r.ok THEN r.docs ELSE report_of
       IN updated(update_source(provider, parsed, handlers[h].path, handlers[h].text))
    /\ loaded' = NotLoaded
    /\ edited' = [edited EXCEPT ![handlers[h].path] = handlers[h].text]
    /\ last' = Step("update", h)
    /\ Goto(h, "release")
    /\ UNCHANGED <<lock, issued, published, files, hist, read, nops, cvars, tvars, qvars, dvars, pvars, xvars, fvars>>

\* the `with` block is left
Release(h) ==
    /\ handlers[h].pc = "release"
    /\ lock' = IF lock = h THEN NoHolder ELSE lock
    /\ Goto(h, IF handlers[h].kind = "change" THEN "publish" ELSE "idle")
    /\ UNCHANGED <<issued, report_of, published, last, loaded, edited,
                   cvars, svars, tvars, qvars, dvars, pvars, xvars, fvars>>

\* didChange: the diagnostics are published once the lock is released
ChangePublish(h) ==
    /\ handlers[h].kind = "change" /\ handlers[h].pc = "publish"
    /\ published' = report_of
    /\ last' = Step("publish", h)
    /\ Goto(h, "idle")
    /\ UNCHANGED <<lock, issued, report_of, loaded, edited, cvars, svars, tvars, qvars, dvars, pvars, xvars, fvars>>

\* the steps a handler thread takes on its own
Serve(h) ==
    \/ Acquire(h)
    \/ LoadClear(h)
    \/ LoadUpdate(h)
    \/ LoadCompile(h)
    \/ LoadPublish(h)
    \/ ResetClear(h)
    \/ ChangeUpdate(h)
    \/ Release(h)
    \/ ChangePublish(h)

InitLsp ==
    /\ LspAtRest
    /\ DebounceAtRest
    /\ ClientAtRest
    /\ SandboxAtRest
    /\ ProbeAtRest
    /\ provider = [overlay |-> NoOverlay, memory_only |-> FALSE]
    /\ files = [q \in Paths |-> IF q = "p" THEN DiskText ELSE None]
    /\ parsed = [q \in Paths |-> None]
    /\ hist = <<>>
    /\ read = NoRead
    /\ nops = 0
    /\ CompilerAtRest
    /\ TableAtRest
    /\ QueryAtRest

NextLsp == \E h \in Slots : Receive(h) \/ Serve(h)

SpecLsp == InitLsp /\ [][NextLsp]_vars

\* every handler thread that can take a step eventually takes one; nothing
\* obliges the client to send a request
SpecLspLive == SpecLsp /\ \A h \in Slots : WF_vars(Serve(h))

(***************************************************************************)
(* Claims about the language server                                        *)
(***************************************************************************)
\* C16: diagnostics are published to the client only after the critical
\* section that ran the compile has been released, never while the lock is
\* held by the publishing handler
C16_PublishedAfterRelease == last.op = "publish" => ~last.locked

Loader(h) == handlers[h].kind = "load"

\* the handler is between entering and leaving its `with ls.lock:` block
InsideLock(h) ==
    \/ handlers[h].pc \in {"clear", "hydrate", "compile", "update", "release"}
    \/ Loader(h) /\ handlers[h].pc = "publish"

\* the loader has finished hydrating the overlay
Hydrated(h) == Loader(h) /\ handlers[h].pc \in {"compile", "publish", "release"}

\* C17: loadProject replaces the overlay atomically under the lock and then
\* compiles: from the compile it triggers onwards the overlay holds exactly
\* the files of the message, no other handler is inside its critical section
\* while the loader is, and a request served afterwards finds the overlay of
\* the message, never a partially hydrated one
C17_LoadReplacesOverlayAtomically ==
    /\ \A h \in Slots :
          Hydrated(h) => provider.overlay = MessageMap(handlers[h].files, 1, NoOverlay)
    /\ \A h, g \in Slots :
          (h # g /\ Loader(h) /\ InsideLock(h)) => ~InsideLock(g)
    /\ (loaded.set /\ \A h \in Slots : handlers[h].pc # "hydrate")
          => provider.overlay = loaded.map

\* a load that replaced a non-empty overlay reaches its compile while another
\* request waits for the lock
C17_Witness ==
    \E h, g \in Slots :
        /\ h # g
        /\ Hydrated(h) /\ handlers[h].pc = "compile"
        /\ loaded.replaced
        /\ handlers[g].pc = "acquire"

\* C19: every mutation of the Source Provider overlay (replacing an entry,
\* clearing all entries) is performed while the lock is held by the handler
\* that performs it
C19_OverlayMutatedUnderLock == last.op \in {"clear", "update"} => last.locked

\* a reset clears the overlay, holding the lock, as the last of the requests
C19_Witness ==
    /\ last.op = "clear"
    /\ handlers[last.by].kind = "reset"
    /\ last.locked
    /\ issued = MaxReq

\* the client has sent its last request
EditsStopped == issued = MaxReq

AllIdle == \A h \in Slots : handlers[h].pc = "idle"

\* the documents compiled last hold the latest content of every edited file
\* and the diagnostics of that compile are the ones published last
LatestCompiledAndPublished ==
    \A path \in Paths :
        edited[path] # None =>
            /\ parsed[path] = edited[path]
            /\ report_of[path] = edited[path]
            /\ published[path] = edited[path]

\* C18: once edits stop, a compile eventually runs over the latest content of
\* every edited file and its diagnostics are the last ones published
C18_EditsAbsorbedBySubsequentCompile ==
    EditsStopped ~> (AllIdle /\ LatestCompiledAndPublished)

(***************************************************************************)
(* Debounced validation on didChange                                       *)
(***************************************************************************)
MaxTime == 3000
MaxBurst == 3

\* validation_debouncer = Debouncer(1.0), in milliseconds
interval == 1000

\* the interval the clients wait for: "default 500ms + buffer"
ExpectedInterval == 500

\* the time that may pass between two events, in milliseconds
Delays == {250, 500}

\* Debouncer.debounce: a pending timer is cancelled and a new one is started
\* with the arguments of the function: the uri and the content
debounce(t, at, uri, content) ==
    [armed |-> TRUE, deadline |-> at + interval, uri |-> uri, content |-> content]

\* textDocument/didChange: the single-document validation is debounced
did_change ==
    /\ burst.edits < MaxBurst
    /\ now + interval <= MaxTime
    /\ \E uri \in Paths, content \in EditTexts :
          /\ timer' = debounce(timer, now, uri, content)
          /\ burst' = [edits |-> burst.edits + 1, latest |-> now, content |-> content]
          /\ edited' = [edited EXCEPT ![uri] = content]
    /\ UNCHANGED <<now, debounced, validated, lock, handlers, issued, report_of, published,
                   last, loaded, cvars, svars, tvars, qvars, pvars, xvars, fvars>>

\* the timer expires and runs _validate_single_doc on the content it was
\* started with: the text is parsed and checked against the loaded models,
\* the diagnostics of this file are published; the server has no lock and
\* Compiler.compile is not called
_validate_single_doc ==
    /\ timer.armed
    /\ now = timer.deadline
    /\ debounced' = [runs |-> IF debounced.runs < MaxBurst THEN debounced.runs + 1
                              ELSE debounced.runs,
                     op |-> "validate_single_doc",
                     delay |-> now - burst.latest,
                     locked |-> lock # NoHolder,
                     content |-> timer.content,
                     edits |-> burst.edits]
    /\ validated' = [validated EXCEPT ![timer.uri] = timer.content]
    /\ timer' = NoTimer
    /\ burst' = NoBurst
    /\ UNCHANGED <<now, cvars, svars, tvars, qvars, lvars, pvars, xvars, fvars>>

\* textDocument/didSave: validate_workspace compiles and publishes at once
did_save ==
    /\ last' = [op |-> "compile", by |-> "did_save", locked |-> lock # NoHolder]
    /\ UNCHANGED <<lock, handlers, issued, report_of, published, loaded, edited,
                   cvars, svars, tvars, qvars, dvars, pvars, xvars, fvars>>

\* time passes, but not beyond the moment a pending timer expires
Advance ==
    \E d \in Delays :
        /\ now + d <= MaxTime
        /\ timer.armed => now + d <= timer.deadline
        /\ now' = now + d
        /\ UNCHANGED <<timer, burst, debounced, validated, cvars, svars, tvars, qvars, lvars, pvars, xvars, fvars>>

InitDebounce ==
    /\ DebounceAtRest
    /\ ClientAtRest
    /\ SandboxAtRest
    /\ ProbeAtRest
    /\ LspAtRest
    /\ SourceAtRest
    /\ CompilerAtRest
    /\ TableAtRest
    /\ QueryAtRest

NextDebounce == did_change \/ _validate_single_doc \/ did_save \/ Advance

SpecDebounce == InitDebounce /\ [][NextDebounce]_vars

\* C20: repeated edits are debounced: the debounced function runs the
\* expected 500 ms after the latest edit of the burst, and what it performs
\* is one compile under the lock
C20_OneLockedCompileAfterExpectedInterval ==
    debounced.runs > 0 =>
        /\ debounced.delay = ExpectedInterval
        /\ debounced.op = "compile"
        /\ debounced.locked

(***************************************************************************)
(* Publishing diagnostics per document                                     *)
(***************************************************************************)
\* a clean document, a document with an entity that fails its schema, and a
\* text the parser rejects
DocTexts == {"c1", "e1", "bad"}

PathOrder == <<"p", "q">>

Located(code, path) == [code |-> code, path |-> path]

\* the documents a scan through the provider yields: every readable file
\* that parses
scan_documents(prov, fs) == View(prov, fs)

\* the diagnostics the validator leaves for the documents, each located at
\* the entity's block (validator_error(..., location=entity.location))
RECURSIVE validator_report(_, _)
validator_report(docs, k) ==
    IF k > Len(PathOrder) THEN <<>>
    ELSE (IF docs[PathOrder[k]] = "e1" THEN <<Located("E0361", PathOrder[k])>> ELSE <<>>)
         \o validator_report(docs, k + 1)

\* the scanner's diagnostics: a file that does not parse is reported at the
\* file and yields no document
RECURSIVE scanner_report(_, _, _)
scanner_report(prov, fs, k) ==
    IF k > Len(PathOrder) THEN <<>>
    ELSE (IF get_content(prov, fs, PathOrder[k]).ok
             /\ ~parses(get_content(prov, fs, PathOrder[k]).text)
          THEN <<Located("E0101", PathOrder[k])>> ELSE <<>>)
         \o scanner_report(prov, fs, k + 1)

\* Compiler.compile(script_name): an unknown script leaves one E0903 without
\* location and returns before the scan; otherwise scan, link and validate
compile_for_server(prov, fs, docs, script) ==
    IF script = "missing"
    THEN [documents |-> docs, diagnostics |-> <<Located("E0903", None)>>]
    ELSE [documents |-> scan_documents(prov, fs),
          diagnostics |-> scanner_report(prov, fs, 1)
                          \o validator_report(scan_documents(prov, fs), 1)]

\* publish_diagnostics: the located diagnostics are grouped by file, and one
\* list is sent for every document of compiler.documents
publish_diagnostics(ds, docs, cl) ==
    [path \in Paths |->
        IF docs[path] = None THEN cl[path]
        ELSE [sent |-> TRUE,
              diagnostics |-> SelectSeq(ds, LAMBDA d : d.path = path)]]

\* the overlay of a loadProject message
PubMessages == [Paths -> {None, "c1", "e1"}] \cup {[q \in Paths |-> "bad"]}

\* typedown/loadProject: clear, hydrate, compile, publish
PubLoad ==
    /\ nops < MaxOps
    /\ \E m \in PubMessages :
        LET loaded_as(prov) ==
                LET compiled(c) ==
                        /\ provider' = prov
                        /\ parsed' = c.documents
                        /\ report' = c.diagnostics
                        /\ client' = publish_diagnostics(c.diagnostics, c.documents, client)
                IN compiled(compile_for_server(prov, files, parsed, None))
        IN loaded_as([provider EXCEPT !.overlay = m])
    /\ nops' = nops + 1
    /\ UNCHANGED <<files, hist, read, cvars, tvars, qvars, lvars, dvars, xvars, fvars>>

\* a compile asked for with a script name, followed by a publish
PubCompile ==
    /\ nops < MaxOps
    /\ \E script \in {None, "missing"} :
        LET compiled(c) ==
                /\ parsed' = c.documents
                /\ report' = c.diagnostics
                /\ client' = publish_diagnostics(c.diagnostics, c.documents, client)
        IN compiled(compile_for_server(provider, files, parsed, script))
    /\ nops' = nops + 1
    /\ UNCHANGED <<provider, files, hist, read, cvars, tvars, qvars, lvars, dvars, xvars, fvars>>

\* textDocument/didChange: update_document, then a publish
PubChange ==
    /\ nops < MaxOps
    /\ \E path \in Paths, text \in DocTexts :
        LET updated(r) ==
                /\ provider' = r.provider
                /\ parsed' = r.docs
                /\ report' = IF r.ok THEN validator_report(r.docs, 1) ELSE report
                /\ client' = publish_diagnostics(
                                IF r.ok THEN validator_report(r.docs, 1) ELSE report,
                                r.docs, client)
        IN updated(update_source(provider, parsed, path, text))
    /\ nops' = nops + 1
    /\ UNCHANGED <<files, hist, read, cvars, tvars, qvars, lvars, dvars, xvars, fvars>>

InitPublish ==
    /\ ClientAtRest
    /\ SandboxAtRest
    /\ ProbeAtRest
    /\ DebounceAtRest
    /\ LspAtRest
    /\ provider = [overlay |-> NoOverlay, memory_only |-> FALSE]
    /\ files \in {[q \in Paths |-> None], [q \in Paths |-> IF q = "p" THEN "e1" ELSE None]}
    /\ parsed = [q \in Paths |-> None]
    /\ hist = <<>>
    /\ read = NoRead
    /\ nops = 0
    /\ CompilerAtRest
    /\ TableAtRest
    /\ QueryAtRest

NextPublish == PubLoad \/ PubCompile \/ PubChange

SpecPublish == InitPublish /\ [][NextPublish]_vars

HasErrors(path) == \E i \in 1..Len(report) : report[i].path = path

\* C21: a file that had diagnostics published and has no errors left in the
\* compiler's report has received an empty diagnostic list
C21_ResolvedFileIsCleared ==
    \A path \in Paths :
        (client[path].sent /\ ~HasErrors(path)) => client[path].diagnostics = <<>>

\* the documents whose list, as the client holds it, contains the diagnostic
ShownAt(d) ==
    {path \in Paths :
        client[path].sent
        /\ \E k \in 1..Len(client[path].diagnostics) : client[path].diagnostics[k] = d}

SafeNames == {"len", "math", "json", "pathlib", "Path", "__import__"}

Code(op, module, value) == [op |-> op, module |-> module, value |-> value]

\* the programs run: `x = 1`, `y = math.pi`, `math.pi = v`, `import os`
Programs ==
    {Code("assign", None, None), Code("import_os", None, None)}
    \cup {Code("read", m, None) : m \in Modules}
    \cup {Code("write", m, v) : m \in Modules, v \in {"v1", "v2"}}

\* create_safe_globals: a new dict per call; the modules in it are the
\* objects importlib.import_module returns, shared by every call
create_safe_globals(sb) == [names |-> SafeNames, modules |-> sb.modules]

\* _validate_code_ast: an import of a blocked module is a violation; an
\* attribute access or assignment is not
validate_code_ast(code) == code.op # "import_os"

\* execute: AST validation, compilation, exec in the globals. With
\* RestrictedPython the attribute accesses are rewritten to guard calls the
\* globals do not define, and fail
execute(sb, code) ==
    IF ~validate_code_ast(code)
    THEN [modules |-> sb.modules, outcome |-> "SandboxViolationError", observed |-> None]
    ELSE IF code.op = "assign"
    THEN [modules |-> sb.modules, outcome |-> "ok", observed |-> None]
    ELSE IF sb.restricted
    THEN [modules |-> sb.modules, outcome |-> "RuntimeError", observed |-> None]
    ELSE IF code.op = "read"
    THEN [modules |-> sb.modules, outcome |-> "ok",
          observed |-> create_safe_globals(sb).modules[code.module]]
    ELSE [modules |-> [sb.modules EXCEPT ![code.module] = code.value],
          outcome |-> "ok", observed |-> None]

\* SandboxExecutor.execute(code) with no globals given
Execute ==
    /\ execution.n < MaxOps
    /\ \E code \in Programs :
        LET ran(r) ==
                /\ sandbox' = [sandbox EXCEPT !.modules = r.modules]
                /\ execution' = [n |-> execution.n + 1, code |-> code,
                                 outcome |-> r.outcome,
                                 globals |-> create_safe_globals(sandbox).names,
                                 observed |-> r.observed]
        IN ran(execute(sandbox, code))
    /\ UNCHANGED <<cvars, svars, tvars, qvars, lvars, dvars, pvars, fvars>>

\* a new executor, e.g. for the next compile
NewExecutor ==
    /\ execution.n > 0
    /\ execution.outcome # "new"
    /\ execution' = [execution EXCEPT !.outcome = "new", !.observed = None]
    /\ UNCHANGED <<sandbox, cvars, svars, tvars, qvars, lvars, dvars, pvars, fvars>>

InitSandbox ==
    /\ sandbox \in {[restricted |-> r, modules |-> PristineModules] : r \in BOOLEAN}
    /\ execution = NoExecution
    /\ ProbeAtRest
    /\ ClientAtRest
    /\ DebounceAtRest
    /\ LspAtRest
    /\ SourceAtRest
    /\ CompilerAtRest
    /\ TableAtRest
    /\ QueryAtRest

NextSandbox == Execute \/ NewExecutor

SpecSandbox == InitSandbox /\ [][NextSandbox]_vars

\* C22: each execution starts from a fresh environment, sandboxed code does
\* not mutate the shared base, and no execution observes what an earlier one
\* did to it
C22_ExecutionsIsolatedThroughBase ==
    /\ execution.n > 0 => execution.globals = SafeNames
    /\ sandbox.modules = PristineModules
    /\ execution.observed \in {None, "original"}

(***************************************************************************)
(* The reference filter of the schema and local stages                     *)
(***************************************************************************)
\* field annotations of a model and the values a body can give a field: an
\* int, a plain string, the string "[[x]]", lists of these, or no value
FieldAnns == {"int", "int|float", "List[int]", "str"}
BodyValues == {"int", "str", "ref", "list_int", "list_ref", "missing"}
FieldNames == <<"a", "b">>

Err(loc, input) == [loc |-> loc, input |-> input]

Accepts(ann, v) ==
    \/ ann = "int" /\ v = "int"
    \/ ann = "int|float" /\ v = "int"
    \/ ann = "List[int]" /\ v = "list_int"
    \/ ann = "str" /\ v \in {"str", "ref"}

\* ValidationError.errors() for one field: `loc` is the path pydantic
\* reports, which for a union carries the tag of the member tried and for a
\* list item its index; `input` is the value that failed
errors_of(f, ann, v) ==
    IF Accepts(ann, v) THEN <<>>
    ELSE IF v = "missing" THEN <<Err(<<f>>, "missing")>>
    ELSE IF ann = "List[int]" /\ v = "list_ref" THEN <<Err(<<f, "0">>, "ref")>>
    ELSE IF ann = "int|float" THEN <<Err(<<f, "int">>, v), Err(<<f, "float">>, v)>>
    ELSE <<Err(<<f>>, v)>>

\* `for part in loc: val = val[part]`, with KeyError, IndexError and
\* TypeError giving None
RECURSIVE value_at(_, _, _)
value_at(val, loc, k) ==
    IF k > Len(loc) THEN val
    ELSE IF k = 1
         THEN (IF val[loc[1]] = "missing" THEN None ELSE value_at(val[loc[1]], loc, 2))
    ELSE IF loc[k] = "0" /\ val = "list_ref" THEN value_at("ref", loc, k + 1)
    ELSE IF loc[k] = "0" /\ val = "list_int" THEN value_at("int", loc, k + 1)
    ELSE IF loc[k] = "0" /\ val \in {"str", "ref"} THEN value_at("str", loc, k + 1)
    ELSE None

\* the errors kept: those whose value is not a str matching REF_PATTERN
keep_real_errors(data, es) ==
    SelectSeq(es, LAMBDA e : value_at(data, e.loc, 1) # "ref")

\* the ValidationError of model_cls(**data) for a model with the two fields
validation_errors(anns, data) ==
    errors_of("a", anns.a, data.a) \o errors_of("b", anns.b, data.b)

\* check_schema / run_validators_only on one entity: E0361 when an error is
\* left after the filter
emits_E0361(anns, data) == keep_real_errors(data, validation_errors(anns, data)) # <<>>

\* one entity is checked at the schema or at the local stage
CheckEntity ==
    /\ probe = NoProbe
    /\ \E stage \in {"check_schema", "run_validators_only"},
          anns \in [a : FieldAnns, b : FieldAnns],
          data \in [a : BodyValues, b : BodyValues] :
            probe' = [fn |-> stage, n |-> 1, anns |-> anns, data |-> data,
                      errors |-> validation_errors(anns, data),
                      E0361 |-> emits_E0361(anns, data)]
    /\ UNCHANGED <<cvars, svars, tvars, qvars, lvars, dvars, pvars, xvars>>

InitFilter ==
    /\ ProbeAtRest
    /\ SandboxAtRest
    /\ ClientAtRest
    /\ DebounceAtRest
    /\ LspAtRest
    /\ SourceAtRest
    /\ CompilerAtRest
    /\ TableAtRest
    /\ QueryAtRest

NextFilter == CheckEntity

SpecFilter == InitFilter /\ [][NextFilter]_vars

FilterRan == probe.fn \in {"check_schema", "run_validators_only"}

\* some validation error of the entity is on a value that is not a reference
\* string
OtherFailure == \E k \in 1..Len(probe.errors) : probe.errors[k].input # "ref"

\* C23: at the schema and local stages an entity whose only failures are on
\* reference strings produces no E0361, and an entity with a failure on any
\* other value produces E0361
C23_ReferenceFailuresSuppressed == FilterRan => (probe.E0361 <=> OtherFailure)

(***************************************************************************)
(* Resolver.topological_sort: Kahn's algorithm over the graph dict         *)
(***************************************************************************)
MaxNodes == 3

NodeIds == {IdOrder[i] : i \in 1..MaxNodes}

\* the orders in which the documents and entities can be walked, i.e. the
\* insertion orders of the graph dict
Walks == {w \in [1..MaxNodes -> NodeIds] : \A i, j \in 1..MaxNodes : w[i] = w[j] => i = j}

\* graph[u] = the ids u depends on
Graphs == {g \in [NodeIds -> SUBSET NodeIds] : \A u \in NodeIds : u \notin g[u]}

\* adj[u]: the dependents of u, appended in the order the dict is iterated
dependents(walk, graph, u) == SelectSeq(walk, LAMBDA v : u \in graph[v])

\* the loop `while queue`: popleft, append, decrement the in-degree of every
\* dependent and queue those that reach 0
RECURSIVE drain(_, _, _, _, _)
drain(walk, graph, queue, in_degree, sorted_list) ==
    IF queue = <<>> THEN sorted_list
    ELSE LET u == Head(queue)
             deps_of_u == dependents(walk, graph, u)
         IN drain(walk, graph,
                  Tail(queue) \o SelectSeq(deps_of_u, LAMBDA v : in_degree[v] = 1),
                  [v \in NodeIds |-> IF u \in graph[v] THEN in_degree[v] - 1 ELSE in_degree[v]],
                  Append(sorted_list, u))

\* Resolver.topological_sort: the queue starts with the nodes without
\* dependencies in dict order; a cycle leaves nodes unsorted
resolver_topological_sort(walk, graph) ==
    LET sorted(l) == [cycle |-> Len(l) # Len(walk), order |-> l]
    IN sorted(drain(walk, graph,
                    SelectSeq(walk, LAMBDA u : graph[u] = {}),
                    [v \in NodeIds |-> Cardinality(graph[v])], <<>>))

\* the same entities and edges are sorted after one walk
SortAfterWalk ==
    /\ probe = NoProbe
    /\ \E walk \in Walks, graph \in Graphs :
          probe' = [fn |-> "topological_sort", n |-> 1, walk |-> walk, graph |-> graph,
                    sorted |-> resolver_topological_sort(walk, graph)]
    /\ UNCHANGED <<cvars, svars, tvars, qvars, lvars, dvars, pvars, xvars>>

InitSort ==
    /\ ProbeAtRest
    /\ SandboxAtRest
    /\ ClientAtRest
    /\ DebounceAtRest
    /\ LspAtRest
    /\ SourceAtRest
    /\ CompilerAtRest
    /\ TableAtRest
    /\ QueryAtRest

NextSort == SortAfterWalk

SpecSort == InitSort /\ [][NextSort]_vars

\* C24: the order is the same whatever the walk: it is the one that takes,
\* among the entities whose dependencies are resolved, the smallest id first
C24_OrderIndependentOfWalk ==
    (probe.fn = "topological_sort" /\ ~probe.sorted.cycle)
        => probe.sorted.order = Kahn(probe.graph, {}, <<>>)

(***************************************************************************)
(* Ids with dots and the split of a query                                  *)
(***************************************************************************)
MaxSegs == 2

\* a string is the sequence of its dot-free pieces: <<"user", "alice">> is
\* the text user.alice
Pieces == {"user", "alice", "name"}
DottedStrings == UNION {[1..n -> Pieces] : n \in 1..MaxSegs}

\* the symbol tables examined: one or two registered entity ids
DottedTables == {t \in SUBSET DottedStrings : Cardinality(t) \in {1, 2}}

\* `parts = query.split(".")`: root_query = parts[0], property_path = parts[1:]
split_query(text) == [root_query |-> <<text[1]>>, property_path |-> Tail(text)]

Entity(id) == [k |-> "entity", id |-> id]
FieldValue(id, path) == [k |-> "value", id |-> id, path |-> path]
Raised(code) == [k |-> "error", code |-> code]

\* _resolve_symbol_path on the text of a reference: the root identifier is
\* looked up as a handle, then the property path is walked; every entity
\* here has the one scalar field `name`
symbol_path_of(known, text) ==
    LET resolved_from(sp) ==
            IF sp.root_query \notin known THEN Raised("E0341")
            ELSE IF sp.property_path = <<>> THEN Entity(sp.root_query)
            ELSE IF sp.property_path = <<"name">> THEN FieldValue(sp.root_query, <<"name">>)
            ELSE Raised("E0365")
    IN resolved_from(split_query(text))

\* resolve_string on "[[text]]": resolve_query swallows the error and returns
\* no result, which becomes a ReferenceError
reference_to(known, text) ==
    LET first(r) == IF r.k = "error" THEN Raised("E0341") ELSE r
    IN first(symbol_path_of(known, text))

\* a reference [[id]] to a registered entity is resolved
ResolveRegistered ==
    /\ probe = NoProbe
    /\ \E known \in DottedTables :
        \E id \in known :
            probe' = [fn |-> "resolve_string", n |-> 1, known |-> known, id |-> id,
                      result |-> reference_to(known, id)]
    /\ UNCHANGED <<cvars, svars, tvars, qvars, lvars, dvars, pvars, xvars>>

InitDotted ==
    /\ ProbeAtRest
    /\ SandboxAtRest
    /\ ClientAtRest
    /\ DebounceAtRest
    /\ LspAtRest
    /\ SourceAtRest
    /\ CompilerAtRest
    /\ TableAtRest
    /\ QueryAtRest

NextDotted == ResolveRegistered

SpecDotted == InitDotted /\ [][NextDotted]_vars

\* C25: a reference [[id]] to a registered entity resolves to that entity,
\* also when the id contains a dot
C25_DottedIdReachable ==
    probe.fn = "resolve_string" => probe.result = Entity(probe.id)

(***************************************************************************)
(* The query service the compiler keeps between operations                 *)
(***************************************************************************)
\* Compiler._query_service: the service is made with the symbol table of the
\* moment and kept until _query_svc is set to None
query_service(c, svc) ==
    IF svc.made THEN svc ELSE [made |-> TRUE, symbol_table |-> c.symbol_table]

\* `self._query_svc = None` in the operations: compile and recompile reach it
\* unless the validator raised, check_structure and check_local only when
\* they passed
after_operation(name, r, svc) ==
    LET reset == CASE name = "compile" -> r.outcome # "crashed"
                   [] name = "recompile" -> r.outcome # "raised"
                   [] OTHER -> r.passed
    IN IF reset THEN NoService ELSE svc

Operate(name, r) ==
    /\ Finish(name, r)
    /\ query_svc' = after_operation(name, r, query_svc)
    /\ UNCHANGED <<answer, disk, cli, svars, tvars, lvars, dvars, pvars, xvars, fvars>>

SvcCompile ==
    /\ calls < MaxCalls
    /\ Operate("compile", compile(compiler, disk, calls + 1))

SvcRecompile ==
    /\ calls < MaxCalls
    /\ compiler.documents.gen > 0
    /\ Operate("recompile", recompile(compiler, calls + 1))

SvcCheckStructure ==
    /\ calls < MaxCalls
    /\ Operate("check_structure", check_structure(compiler, disk, calls + 1))

SvcCheckLocal ==
    /\ calls < MaxCalls
    /\ Operate("check_local", check_local(compiler, disk, calls + 1))

\* Compiler.query for an entity id: whether the table of the service holds
\* it, next to the table the compiler has at that moment
SvcQuery ==
    /\ calls > 0
    /\ \E root \in QueryRoots :
          LET asks(svc) ==
                  /\ query_svc' = svc
                  /\ answer' = [asked |-> TRUE, q |-> <<root>>, at |-> calls,
                                found |-> Holds(svc.symbol_table.tab, Root, root),
                                against |-> svc.symbol_table.gen,
                                current |-> compiler.symbol_table]
          IN asks(query_service(compiler, query_svc))
    /\ UNCHANGED <<cvars, svars, tvars, lvars, dvars, pvars, xvars, fvars>>

NextService ==
    \/ SvcCompile
    \/ SvcRecompile
    \/ SvcCheckStructure
    \/ SvcCheckLocal
    \/ DoEdit
    \/ SvcQuery

SpecService == InitFacade /\ [][NextService]_vars

\* C26: after any sequence of compile, recompile, check_structure and
\* check_local, a query finds an id exactly when the symbol table the
\* compiler has at that moment holds it
C26_QueryAgainstCurrentTable ==
    answer.asked =>
        (answer.found <=> Holds(answer.current.tab, Root, answer.q[1]))

(***************************************************************************)
(* Sequences of update_document                                            *)
(***************************************************************************)
\* Compiler.update_document: update_source, and a recompile of the documents
\* held only when update_source returned True
DoUpdateDocument ==
    /\ nops < MaxOps
    /\ \E path \in Paths, text \in DocTexts :
        LET updated(r) ==
                /\ provider' = r.provider
                /\ parsed' = r.docs
                /\ report' = IF r.ok THEN validator_report(r.docs, 1) ELSE report
                /\ hist' = Append(hist, [op |-> "update", path |-> path, text |-> text])
        IN updated(update_source(provider, parsed, path, text))
    /\ nops' = nops + 1
    /\ UNCHANGED <<files, read, client, cvars, tvars, qvars, lvars, dvars, xvars, fvars>>

NextUpdate == DoUpdateDocument

SpecUpdate == InitPublish /\ [][NextUpdate]_vars

\* C27: after any sequence of update_document calls, a document the compiler
\* holds for a path was parsed from the text the overlay holds for the path,
\* and the compiler's report has an error for the path exactly when that
\* text has one
C27_CompiledStateFollowsOverlay ==
    \A path \in Paths :
        (provider.overlay[path] # None /\ parsed[path] # None) =>
            /\ parsed[path] = provider.overlay[path]
            /\ HasErrors(path) <=> (provider.overlay[path] = "e1")

(***************************************************************************)
(* A former cycle and the entities outside it                              *)
(***************************************************************************)
\* the entity is not on a `former` cycle and its chain of formers does not
\* lead to one
ClearOfCycles(id) ==
    \A n \in ReachFrom(FormerAdj, {id}, {id}) : ~OnCycle(FormerAdj, n)

\* C28: after a global stage on a project with a `former` cycle, every
\* entity that is not on a cycle (and whose formers are not either) has
\* resolved_data populated or an E0341 recorded for it
C28_OffCycleEntitiesResolved ==
    (Completed /\ FormerCycle) =>
        \A i \in 1..Len(disk.ents) :
            ClearOfCycles(disk.ents[i].id) =>
                \/ compiler.resolved[i].set
                \/ Len(DiagsAt("E0341", i)) >= 1

(***************************************************************************)
(* Debounced validation of several documents                               *)
(***************************************************************************)
\* a started threading.Timer runs its function when its interval has passed,
\* and the clock does not stop
SpecDebounceLive ==
    SpecDebounce /\ WF_vars(Advance) /\ WF_vars(_validate_single_doc)

\* C30: every document that was edited is eventually validated with the
\* content of its latest edit, whatever edits of other documents arrive in
\* the meantime
C30_EveryEditedDocumentValidated ==
    \A path \in Paths :
        [](edited[path] # None => <>(validated[path] = edited[path]))

====
